---------------------------- MODULE Spec2Model ----------------------------
(***************************************************************************)
(* PyMAUDE curation and adjudication engine.                               *)
(*                                                                         *)
(*   DeviceSearchStrategy   src/src/pymaude/search_strategy.py             *)
(*   AdjudicationLog        src/src/pymaude/adjudication.py                *)
(*                                                                         *)
(* Text that is searched (device names, keywords, exclusion patterns) is   *)
(* a sequence of one-character strings, so that substring and regular      *)
(* expression matching are computed.  Report keys are tagged values, an    *)
(* integer or a string, and str() is computed on them.                     *)
(***************************************************************************)
EXTENDS Integers, Sequences, FiniteSets, TLC

VARIABLES
    strategy,   \* the DeviceSearchStrategy object (its dataclass fields)
    db,         \* the report store handed to apply
    result,     \* what the last call of apply returned or raised
    now,        \* the wall clock read by datetime.now()
    last,       \* the last call of add_manual_decision / AdjudicationLog.add and its outcome
    recent,     \* history: str(key) -> decision of the most recent accepted add_manual_decision
    records,    \* AdjudicationLog.records
    yaml_file,  \* the document written by to_yaml (NoFile before the first write)
    loaded,     \* the object returned by from_yaml (NoStrategy before the first load)
    logs,       \* the AdjudicationLog objects of the process: name -> [open, records]
    csv_file,   \* the backing file of the logs (they share one path)
    log_last,   \* the last call on an AdjudicationLog object and what it returned or raised
    saved,      \* history: the records handed to the last completed to_csv, and by which object
    groups,     \* SelectionManager.groups: group name -> state of the group
    widget,     \* the SelectionWidget: its screen and what the screen has loaded
    selections_file,  \* the groups as the last manager.save() wrote them
    ui_last,    \* the last event of the widget
    patients,   \* the table of patient rows handed to the deduplication helpers
    summary,    \* what the last call of a deduplication helper returned or raised
    counts,     \* what the last call of get_prisma_counts returned
    writing     \* the call of to_csv that is under way, if one is

logvars == <<logs, csv_file, log_last, saved>>

cascadevars == <<groups, widget, selections_file, ui_last>>

helpervars == <<patients, summary, counts, writing>>

vars == <<strategy, db, result, now, last, recent, records, yaml_file, loaded, logvars, cascadevars, helpervars>>

----------------------------------------------------------------------------
(* Bounds of the model *)

MaxReports == 3      \* rows of the store
MaxTime == 3         \* readings of the clock
MaxRecords == 3      \* records in the adjudication log
MaxLog == 2          \* records in an AdjudicationLog object with a backing file
MaxLogTime == 1      \* readings of the clock while such an object is used

----------------------------------------------------------------------------
(* Sequences *)

SeqsUpTo(S, n) == UNION {[1..k -> S] : k \in 0..n}

Range(s) == {s[i] : i \in 1..Len(s)}

RECURSIVE Flatten(_)
Flatten(ss) == IF ss = <<>> THEN <<>> ELSE Head(ss) \o Flatten(Tail(ss))

\* list.remove(x): drops the first occurrence of x
RemoveFirst(s, x) ==
    LET i == CHOOSE j \in 1..Len(s) : s[j] = x /\ \A k \in 1..(j-1) : s[k] # x
    IN  SubSeq(s, 1, i-1) \o SubSeq(s, i+1, Len(s))

----------------------------------------------------------------------------
(* Python values: report keys and str() *)

IntKey(n) == [kind |-> "int", n |-> n, s |-> ""]
StrKey(s) == [kind |-> "str", n |-> 0, s |-> s]

DigitStr == <<"1", "2", "3", "4", "5", "6", "7", "8", "9">>

RECURSIVE Decimal(_)
Decimal(n) ==
    IF n = 0 THEN "0"
    ELSE IF n < 10 THEN DigitStr[n]
    ELSE Decimal(n \div 10) \o Decimal(n % 10)

\* str(k): the decimal digits of an integer, a string unchanged
PyStr(k) == IF k.kind = "int" THEN Decimal(k.n) ELSE k.s

----------------------------------------------------------------------------
(* Text matching *)

Lower(c) ==
    CASE c = "A" -> "a" [] c = "C" -> "c" [] c = "J" -> "j" [] c = "T" -> "t"
      [] c = "U" -> "u" [] c = "X" -> "x" [] OTHER -> c

\* a case-insensitive substring test
ContainsText(text, kw) ==
    \E i \in 0..(Len(text) - Len(kw)) :
        \A j \in 1..Len(kw) : Lower(text[i + j]) = Lower(kw[j])

\* Series.str.contains(pattern, case=False, na=False): pandas' default is
\* regex=True, so the pattern is searched as a regular expression with
\* re.IGNORECASE; "." matches any one character, a letter matches itself.
RegexCharMatches(pc, c) == pc = "." \/ Lower(pc) = Lower(c)

StrContains(text, pattern) ==
    \E i \in 0..(Len(text) - Len(pattern)) :
        \A j \in 1..Len(pattern) : RegexCharMatches(pattern[j], text[i + j])

----------------------------------------------------------------------------
(* Boolean search expressions: a list of items, each a keyword (str) or an  *)
(* AND group (list of str)                                                  *)

Term(kw) == [kind |-> "str", terms |-> <<kw>>]
Group(kws) == [kind |-> "list", terms |-> kws]

----------------------------------------------------------------------------
(* The report store *)

Space == <<" ">>

\* one report: the store exposes the device names and a concatenated name
Report(key, event, brand, generic, manufacturer) ==
    [MDR_REPORT_KEY |-> key,
     EVENT_KEY |-> event,
     BRAND_NAME |-> brand,
     GENERIC_NAME |-> generic,
     MANUFACTURER_D_NAME |-> manufacturer,
     DEVICE_NAME_CONCAT |-> brand \o Space \o generic \o Space \o manufacturer]

\* (a AND b AND ...) for a group, the keyword itself for a single term
ItemMatches(item, text) == \A i \in 1..Len(item.terms) : ContainsText(text, item.terms[i])

\* the items of an expression are OR-ed
ExpressionMatches(criteria, text) == \E i \in 1..Len(criteria) : ItemMatches(criteria[i], text)

\* deduplicate_events=True: the reports of one event collapse to the first row
DeduplicateEvents(rows) ==
    LET keep(i) == \A j \in 1..(i-1) : rows[j].EVENT_KEY # rows[i].EVENT_KEY
        F[i \in 0..Len(rows)] ==
            IF i = 0 THEN <<>>
            ELSE IF keep(i) THEN Append(F[i-1], rows[i]) ELSE F[i-1]
    IN  F[Len(rows)]

\* db.search_by_device_names(criteria, deduplicate_events=True)
search_by_device_names(d, criteria) ==
    DeduplicateEvents(
        SelectSeq(d.rows, LAMBDA r : ExpressionMatches(criteria, r.DEVICE_NAME_CONCAT)))

----------------------------------------------------------------------------
(* DeviceSearchStrategy.apply *)

Keys(rows) == {PyStr(rows[i].MDR_REPORT_KEY) : i \in 1..Len(rows)}

StrKeys(overrides) == {PyStr(overrides[i]) : i \in 1..Len(overrides)}

KeyIn(rows, keys) == SelectSeq(rows, LAMBDA r : PyStr(r.MDR_REPORT_KEY) \in keys)

KeyNotIn(rows, keys) == SelectSeq(rows, LAMBDA r : PyStr(r.MDR_REPORT_KEY) \notin keys)

FallbackColumns == <<"BRAND_NAME", "GENERIC_NAME", "MANUFACTURER_D_NAME">>

\* the mask of one pattern on one row (step 4)
PatternMask(r, pattern, columns, name_column) ==
    IF name_column \in columns
    THEN StrContains(r[name_column], pattern)
    ELSE \E i \in 1..Len(FallbackColumns) :
            /\ FallbackColumns[i] \in columns
            /\ StrContains(r[FallbackColumns[i]], pattern)

\* step 4: the loop over exclusion_patterns; excluded_list gets one frame per pattern
RECURSIVE PatternLoop(_, _, _, _, _)
PatternLoop(patterns, needs_review, excluded_list, columns, name_column) ==
    IF patterns = <<>>
    THEN [needs_review |-> needs_review, excluded_list |-> excluded_list]
    ELSE LET pattern == Head(patterns)
             hit(r) == PatternMask(r, pattern, columns, name_column)
         IN  PatternLoop(Tail(patterns),
                         SelectSeq(needs_review, LAMBDA r : ~hit(r)),
                         Append(excluded_list, SelectSeq(needs_review, hit)),
                         columns, name_column)

Raised(message, searches) ==
    [raised |-> "ValueError", message |-> message, searches |-> searches,
     included |-> <<>>, excluded |-> <<>>, needs_review |-> <<>>]

\* a variant that forgets to take the included rows out of needs_review
ApplyInclusionsKeepsReview(s, st) ==
    IF s.inclusion_overrides # <<>>
    THEN [st EXCEPT !.included =
                st.included \o KeyIn(st.needs_review, StrKeys(s.inclusion_overrides))]
    ELSE st

\* a variant that ignores inclusion_overrides
ApplyInclusionsSkipped(s, st) == st

\* a variant in which an inclusion override also takes a row back from excluded
ApplyInclusionsFromExcluded(s, st) ==
    IF s.inclusion_overrides # <<>>
    THEN LET inclusion_keys == StrKeys(s.inclusion_overrides)
         IN  [st EXCEPT
                 !.included = st.included \o KeyIn(st.needs_review \o st.excluded, inclusion_keys),
                 !.needs_review = KeyNotIn(st.needs_review, inclusion_keys),
                 !.excluded = KeyNotIn(st.excluded, inclusion_keys)]
    ELSE st

\* step 5, inclusion overrides
ApplyInclusions(s, st) ==
    IF s.inclusion_overrides # <<>>
    THEN LET inclusion_keys == StrKeys(s.inclusion_overrides)
             manual_includes == KeyIn(st.needs_review, inclusion_keys)
         IN  IF Len(manual_includes) > 0
             THEN [st EXCEPT !.included = st.included \o manual_includes,
                             !.needs_review = KeyNotIn(st.needs_review, inclusion_keys)]
             ELSE st
    ELSE st

\* a variant that looks for manual exclusions in needs_review only
ApplyExclusionsReviewOnly(s, st) ==
    IF s.exclusion_overrides # <<>>
    THEN LET exclusion_keys == StrKeys(s.exclusion_overrides)
         IN  [st EXCEPT !.excluded = st.excluded \o KeyIn(st.needs_review, exclusion_keys),
                        !.needs_review = KeyNotIn(st.needs_review, exclusion_keys)]
    ELSE st

\* step 5, exclusion overrides
ApplyExclusions(s, st) ==
    IF s.exclusion_overrides # <<>>
    THEN LET exclusion_keys == StrKeys(s.exclusion_overrides)
             manual_excludes_from_review == KeyIn(st.needs_review, exclusion_keys)
             manual_excludes_from_included == KeyIn(st.included, exclusion_keys)
             st1 == IF Len(manual_excludes_from_review) > 0
                    THEN [st EXCEPT !.excluded = st.excluded \o manual_excludes_from_review,
                                    !.needs_review = KeyNotIn(st.needs_review, exclusion_keys)]
                    ELSE st
         IN  IF Len(manual_excludes_from_included) > 0
             THEN [st1 EXCEPT !.excluded = st1.excluded \o manual_excludes_from_included,
                              !.included = KeyNotIn(st1.included, exclusion_keys)]
             ELSE st1
    ELSE st

\* a variant that sends every broad result to review, the narrow ones included
ResolveNoDifference(s, d, name_column) ==
    LET broad_results == search_by_device_names(d, s.broad_criteria)
        narrow_results == search_by_device_names(d, s.narrow_criteria)
        looped == IF s.exclusion_patterns # <<>>
                  THEN PatternLoop(s.exclusion_patterns, broad_results, <<>>,
                                   d.columns, name_column)
                  ELSE [needs_review |-> broad_results, excluded_list |-> <<>>]
    IN  [raised |-> "", message |-> "", searches |-> 2,
         included |-> narrow_results,
         excluded |-> Flatten(looped.excluded_list),
         needs_review |-> looped.needs_review]

\* a variant that includes a narrow result only if the broad search returned it too
ResolveWithinBroad(s, d, name_column) ==
    LET broad_results == search_by_device_names(d, s.broad_criteria)
        narrow_results == search_by_device_names(d, s.narrow_criteria)
        needs_review == KeyNotIn(broad_results, Keys(narrow_results))
        looped == IF s.exclusion_patterns # <<>>
                  THEN PatternLoop(s.exclusion_patterns, needs_review, <<>>,
                                   d.columns, name_column)
                  ELSE [needs_review |-> needs_review, excluded_list |-> <<>>]
    IN  [raised |-> "", message |-> "", searches |-> 2,
         included |-> KeyIn(narrow_results, Keys(broad_results)),
         excluded |-> Flatten(looped.excluded_list),
         needs_review |-> looped.needs_review]

\* steps 1 to 4: the searches, the difference and the exclusion patterns
Resolve(s, d, name_column) ==
    LET broad_results == search_by_device_names(d, s.broad_criteria)
        narrow_results == search_by_device_names(d, s.narrow_criteria)
        narrow_keys == Keys(narrow_results)
        needs_review == KeyNotIn(broad_results, narrow_keys)
        looped == IF s.exclusion_patterns # <<>>
                  THEN PatternLoop(s.exclusion_patterns, needs_review, <<>>,
                                   d.columns, name_column)
                  ELSE [needs_review |-> needs_review, excluded_list |-> <<>>]
    IN  [raised |-> "", message |-> "", searches |-> 2,
         included |-> narrow_results,
         excluded |-> Flatten(looped.excluded_list),
         needs_review |-> looped.needs_review]

\* a variant without the check of narrow_criteria
ApplyNarrowUnchecked(s, d, name_column) ==
    IF ~d.is_maude_database
    THEN Raised("db must be a MaudeDatabase instance", 0)
    ELSE IF s.broad_criteria = <<>>
    THEN Raised("broad_criteria cannot be empty", 0)
    ELSE ApplyExclusions(s, ApplyInclusions(s, Resolve(s, d, name_column)))

\* included, excluded, needs_review = strategy.apply(db, name_column)
Apply(s, d, name_column) ==
    IF ~d.is_maude_database
    THEN Raised("db must be a MaudeDatabase instance", 0)
    ELSE IF s.broad_criteria = <<>>
    THEN Raised("broad_criteria cannot be empty", 0)
    ELSE IF s.narrow_criteria = <<>>
    THEN Raised("narrow_criteria cannot be empty", 0)
    ELSE ApplyExclusions(s, ApplyInclusions(s, Resolve(s, d, name_column)))

----------------------------------------------------------------------------
(* The objects *)

\* DeviceSearchStrategy(name, description, ...): the dataclass constructor
DeviceSearchStrategy(name, description, broad, narrow, patterns, incl, excl, rationale, created) ==
    [name |-> name,
     description |-> description,
     version |-> "1.0.0",
     author |-> "",
     created_at |-> created,
     updated_at |-> created,
     broad_criteria |-> broad,
     narrow_criteria |-> narrow,
     known_variants |-> <<>>,
     exclusion_patterns |-> patterns,
     inclusion_overrides |-> incl,
     exclusion_overrides |-> excl,
     search_rationale |-> rationale]

NoResult ==
    [raised |-> "not called", message |-> "", searches |-> 0,
     included |-> <<>>, excluded |-> <<>>, needs_review |-> <<>>]

\* an argument that is one key, or a sequence of keys
OneKey(k) == [shape |-> "one", keys |-> <<k>>]
KeyList(ks) == [shape |-> "list", keys |-> ks]

NoCall ==
    [op |-> "none", outcome |-> "", arg |-> KeyList(<<>>), decision |-> "", reviewer |-> "",
     was |-> "", n_before |-> 0]

NoFile == [exists |-> FALSE, doc |-> <<>>]

NoStrategy == [name |-> "not loaded"]

\* an object that is not a MaudeDatabase
NotADatabase == [is_maude_database |-> FALSE, rows |-> <<>>, columns |-> {}]

\* the names that can hold an AdjudicationLog object
Instances == {"a", "b"}

NoLog == [open |-> FALSE, records |-> <<>>]

NoCsvFile == [exists |-> FALSE, header |-> <<>>, rows |-> <<>>]

NoFrame == [columns |-> {}, rows |-> <<>>]

NoStatistics == [total_decisions |-> 0, inclusions |-> 0, exclusions |-> 0]

NoLogCall ==
    [op |-> "none", inst |-> "", outcome |-> "", returned |-> 0, n_before |-> 0,
     decision |-> "", table |-> NoFrame, keys |-> {}, stats |-> NoStatistics]

NeverSaved == [by |-> "", records |-> <<>>, unsaved |-> 0, savers |-> {}]

\* a SelectionWidget on its main screen
NewWidget ==
    [screen |-> "main", group |-> "", phase |-> "", content |-> "",
     candidates_data |-> <<>>, decision_widgets |-> <<>>,
     md_data |-> <<>>, md_decisions |-> <<>>]

NoEvent == [handler |-> "none", group |-> "", phase |-> "", decision |-> "", outcome |-> ""]

\* no table of patient rows and no call of a helper
NoTable == [columns |-> {}, rows |-> <<>>]

NoSummary == [raised |-> "not called", rows |-> <<>>]

\* get_prisma_counts has not been called
NoCounts == [called |-> FALSE]

\* no call of to_csv is under way
NotWriting == [inst |-> "", handed |-> 0, flushed |-> 0]

\* a manager without groups and its widget
IdleManager ==
    /\ groups = <<>>
    /\ widget = NewWidget
    /\ selections_file = <<>>
    /\ ui_last = NoEvent

\* a manager without groups and its widget; no helper called
IdleCascade ==
    /\ IdleManager
    /\ patients = NoTable
    /\ summary = NoSummary
    /\ counts = NoCounts
    /\ writing = NotWriting

\* no AdjudicationLog has been constructed and there is no backing file
IdleLog ==
    /\ logs = [i \in Instances |-> NoLog]
    /\ csv_file = NoCsvFile
    /\ log_last = NoLogCall
    /\ saved = NeverSaved

----------------------------------------------------------------------------
(* Inputs of apply *)

\* device names of the store: brand and generic name
DeviceNames ==
    { [brand |-> <<"C", "a", "t">>, generic |-> <<"c">>],       \* a, c and t
      [brand |-> <<"a", "c">>,      generic |-> <<"u">>],       \* a and c, and u
      [brand |-> <<"J">>,           generic |-> <<"a", "b">>],  \* j
      [brand |-> <<"T", "u">>,      generic |-> <<"x">>] }      \* t and u

Manufacturer == <<"m">>

\* (broad_criteria, narrow_criteria)
CriteriaChoices ==
    { [broad  |-> << Group(<< <<"a">>, <<"c">> >>), Term(<<"j">>) >>,
       narrow |-> << Group(<< <<"a">>, <<"c">>, <<"t">> >>) >>],
      [broad  |-> << Group(<< <<"a">>, <<"c">> >>), Term(<<"j">>) >>,
       narrow |-> << Term(<<"t">>) >>],
      [broad  |-> <<>>, narrow |-> << Term(<<"t">>) >>],
      [broad  |-> << Term(<<"j">>) >>, narrow |-> <<>>],
      [broad  |-> <<>>, narrow |-> <<>>] }

\* exclusion_patterns
PatternChoices ==
    { <<>>,
      << <<"u">> >>,
      << <<"U">>, <<"a", ".">> >>,
      << <<"a", ".">>, <<"j">>, <<"m">> >> }

\* (inclusion_overrides, exclusion_overrides): keys as given by the caller
OverrideChoices ==
    { [incl |-> <<>>, excl |-> <<>>],
      [incl |-> << StrKey("2") >>, excl |-> <<>>],
      [incl |-> << IntKey(1), StrKey("2") >>, excl |-> << StrKey("2"), IntKey(3) >>],
      [incl |-> << StrKey("3"), StrKey("02") >>, excl |-> << IntKey(1) >>],
      [incl |-> <<>>, excl |-> << IntKey(2), StrKey("9"), StrKey("3") >>] }

\* what the key column and the frame of a query result look like
AllColumns ==
    {"MDR_REPORT_KEY", "EVENT_KEY", "BRAND_NAME", "GENERIC_NAME",
     "MANUFACTURER_D_NAME", "DEVICE_NAME_CONCAT"}

SchemaChoices ==
    { [key_type |-> "int", columns |-> AllColumns, shared |-> FALSE],
      [key_type |-> "str", columns |-> AllColumns, shared |-> FALSE],
      [key_type |-> "int", columns |-> AllColumns, shared |-> TRUE],
      [key_type |-> "int", columns |-> AllColumns \ {"DEVICE_NAME_CONCAT", "BRAND_NAME"},
       shared |-> FALSE] }

KeyOf(i, key_type) == IF key_type = "int" THEN IntKey(i) ELSE StrKey(Decimal(i))

\* the stores: report i has key i; with shared = TRUE reports 1 and 2 describe one event
Stores ==
    { [is_maude_database |-> TRUE,
       columns |-> sch.columns,
       rows |-> [i \in 1..Len(names) |->
                    Report(KeyOf(i, sch.key_type),
                           IF sch.shared /\ i = 2 THEN 1 ELSE i,
                           names[i].brand, names[i].generic, Manufacturer)]] :
      names \in SeqsUpTo(DeviceNames, MaxReports),
      sch \in SchemaChoices }

----------------------------------------------------------------------------
(* Specification of apply: a strategy built by its constructor is applied  *)
(* to a store                                                              *)

Idle ==
    /\ now = 0
    /\ last = NoCall
    /\ recent = <<>>
    /\ records = <<>>
    /\ yaml_file = NoFile
    /\ loaded = NoStrategy
    /\ IdleLog
    /\ IdleCascade

Init ==
    /\ \E c \in CriteriaChoices, p \in PatternChoices, o \in OverrideChoices :
          strategy = DeviceSearchStrategy("s", "d", c.broad, c.narrow, p, o.incl, o.excl, "r", 0)
    /\ db \in Stores \cup {NotADatabase}
    /\ result = NoResult
    /\ Idle

\* included, excluded, needs_review = strategy.apply(db)
apply ==
    /\ result' = Apply(strategy, db, "DEVICE_NAME_CONCAT")
    /\ UNCHANGED <<strategy, db, now, last, recent, records, yaml_file, loaded, logvars, cascadevars, helpervars>>

Next == apply

Spec == Init /\ [][Next]_vars

----------------------------------------------------------------------------
(* What the claims about apply speak of *)

Returned == result.raised = ""

BroadKeys == Keys(search_by_device_names(db, strategy.broad_criteria))

NarrowKeys == Keys(search_by_device_names(db, strategy.narrow_criteria))

InclusionKeys == StrKeys(strategy.inclusion_overrides)

ExclusionKeys == StrKeys(strategy.exclusion_overrides)

\* the texts step 4 looks at for a row: the name column, else the fallback columns
NameTexts(r) ==
    IF "DEVICE_NAME_CONCAT" \in db.columns
    THEN {r.DEVICE_NAME_CONCAT}
    ELSE {r[c] : c \in Range(FallbackColumns) \cap db.columns}

\* the patterns (by position) that a row's name matches, as the code matches
MatchingPatterns(r) ==
    {i \in 1..Len(strategy.exclusion_patterns) :
        \E text \in NameTexts(r) : StrContains(text, strategy.exclusion_patterns[i])}

\* the patterns (by position) that a row's name contains as a case-insensitive substring
ContainedPatterns(r) ==
    {i \in 1..Len(strategy.exclusion_patterns) :
        \E text \in NameTexts(r) : ContainsText(text, strategy.exclusion_patterns[i])}

\* the rows of the broad search outside the narrow search (step 3)
BroadOnlyRows ==
    LET rows == search_by_device_names(db, strategy.broad_criteria)
    IN  {rows[i] : i \in 1..Len(rows)} \ {r \in Range(rows) : PyStr(r.MDR_REPORT_KEY) \in NarrowKeys}

\* keys still in needs_review after the pattern filtering of step 4
SurvivingKeys == {PyStr(r.MDR_REPORT_KEY) : r \in {x \in BroadOnlyRows : MatchingPatterns(x) = {}}}

Count(rows, k) == Cardinality({i \in 1..Len(rows) : PyStr(rows[i].MDR_REPORT_KEY) = k})

----------------------------------------------------------------------------
\* C1: the three outputs of apply are pairwise disjoint by report identifier,
\* compared as a string, for every strategy and every store.
C1_OutputsDisjoint ==
    Returned =>
        /\ Keys(result.included) \cap Keys(result.excluded) = {}
        /\ Keys(result.included) \cap Keys(result.needs_review) = {}
        /\ Keys(result.excluded) \cap Keys(result.needs_review) = {}

C1_Witness ==
    /\ Returned
    /\ result.included # <<>> /\ result.excluded # <<>> /\ result.needs_review # <<>>
    /\ strategy.inclusion_overrides # <<>> /\ strategy.exclusion_overrides # <<>>
    /\ strategy.exclusion_patterns # <<>>

\* C2: every identifier of exclusion_overrides that the broad or the narrow
\* search returned ends in excluded and in neither included nor needs_review,
\* also when inclusion_overrides lists it or the narrow search matched it.
C2_ExclusionOverridesWin ==
    Returned =>
        \A k \in ExclusionKeys \cap (BroadKeys \cup NarrowKeys) :
            /\ k \in Keys(result.excluded)
            /\ k \notin Keys(result.included)
            /\ k \notin Keys(result.needs_review)

C2_Witness ==
    /\ Returned
    /\ \E k \in ExclusionKeys \cap InclusionKeys \cap SurvivingKeys : k \in Keys(result.excluded)
    /\ \E k \in ExclusionKeys \cap NarrowKeys : k \in Keys(result.excluded)

\* C3: a needs_review row whose name contains at least one pattern as a
\* case-insensitive substring leaves needs_review at the first such pattern and
\* is once in excluded; a row whose name contains no pattern stays in
\* needs_review.  Stated on strategies without overrides, where the outputs of
\* apply are the outputs of step 4.
C3_PatternsAreSubstrings ==
    (Returned /\ strategy.inclusion_overrides = <<>> /\ strategy.exclusion_overrides = <<>>) =>
        \A r \in BroadOnlyRows :
            LET k == PyStr(r.MDR_REPORT_KEY)
            IN  IF ContainedPatterns(r) # {}
                THEN Count(result.excluded, k) = 1 /\ Count(result.needs_review, k) = 0
                ELSE Count(result.excluded, k) = 0 /\ Count(result.needs_review, k) = 1

\* C4: an identifier of inclusion_overrides that survived the pattern filtering
\* and is not in exclusion_overrides moves from needs_review into included; an
\* identifier of inclusion_overrides that is not in needs_review adds no row.
C4_InclusionOverrides ==
    Returned =>
        /\ \A k \in InclusionKeys :
              IF k \in SurvivingKeys
              THEN k \notin ExclusionKeys =>
                      /\ Count(result.included, k) = 1
                      /\ k \notin Keys(result.needs_review)
                      /\ k \notin Keys(result.excluded)
              ELSE /\ k \in Keys(result.included) => k \in NarrowKeys
                   /\ k \notin Keys(result.needs_review)
                   /\ Count(result.included \o result.excluded \o result.needs_review, k) =
                        IF k \in BroadKeys \cup NarrowKeys THEN 1 ELSE 0
        /\ Len(result.included) + Len(result.excluded) + Len(result.needs_review)
              = Cardinality(BroadKeys \cup NarrowKeys)

C4_Witness ==
    /\ Returned
    /\ \E k \in InclusionKeys \cap SurvivingKeys :
          k \notin ExclusionKeys /\ k \in Keys(result.included) /\ k \notin NarrowKeys
    /\ \E k \in InclusionKeys : k \notin BroadKeys \cup NarrowKeys

\* C5: apply raises ValueError when broad_criteria or narrow_criteria is empty,
\* the broad check first, and before any search is issued to the store.
C5_EmptyCriteriaRejected ==
    (result # NoResult /\ (strategy.broad_criteria = <<>> \/ strategy.narrow_criteria = <<>>)) =>
        /\ result.raised = "ValueError"
        /\ result.searches = 0
        /\ result.included = <<>> /\ result.excluded = <<>> /\ result.needs_review = <<>>
        /\ db.is_maude_database =>
              result.message = IF strategy.broad_criteria = <<>>
                               THEN "broad_criteria cannot be empty"
                               ELSE "narrow_criteria cannot be empty"

C5_Witness ==
    /\ result.raised = "ValueError"
    /\ db.is_maude_database /\ db.rows # <<>>
    /\ strategy.broad_criteria = <<>> /\ strategy.narrow_criteria = <<>>
    /\ result.message = "broad_criteria cannot be empty"

----------------------------------------------------------------------------
(* DeviceSearchStrategy.add_manual_decision *)

\* a variant that does not take the key out of the opposite list
AddManualDecisionNoSwitch(s, mdr_key, decision, t) ==
    LET key == StrKey(PyStr(mdr_key))
    IN  IF decision = "include"
        THEN [s EXCEPT !.inclusion_overrides =
                          IF key \notin Range(@) THEN Append(@, key) ELSE @,
                       !.updated_at = t]
        ELSE [s EXCEPT !.exclusion_overrides =
                          IF key \notin Range(@) THEN Append(@, key) ELSE @,
                       !.updated_at = t]

\* the body of add_manual_decision after the check of decision; t is datetime.now()
AddManualDecision(s, mdr_key, decision, t) ==
    LET key == StrKey(PyStr(mdr_key))
    IN  IF decision = "include"
        THEN [s EXCEPT !.inclusion_overrides =
                          IF key \notin Range(@) THEN Append(@, key) ELSE @,
                       !.exclusion_overrides =
                          IF key \in Range(@) THEN RemoveFirst(@, key) ELSE @,
                       !.updated_at = t]
        ELSE [s EXCEPT !.exclusion_overrides =
                          IF key \notin Range(@) THEN Append(@, key) ELSE @,
                       !.inclusion_overrides =
                          IF key \in Range(@) THEN RemoveFirst(@, key) ELSE @,
                       !.updated_at = t]

ValidDecision(decision) == decision \in {"include", "exclude"}

----------------------------------------------------------------------------
(* AdjudicationLog.add *)

AdjudicationRecord(key, decision, reason, reviewer, date, version, info, group) ==
    [mdr_report_key |-> key,
     decision |-> decision,
     reason |-> reason,
     reviewer |-> reviewer,
     date |-> date,
     strategy_version |-> version,
     device_info |-> info,
     search_group |-> group]

\* isinstance(mdr_key, str)
IsStr(arg) == arg.shape = "one" /\ arg.keys[1].kind = "str"

\* "for mdr in mdr_key" needs an iterable: a list, or the one-element list made of a str
Iterable(arg) == arg.shape = "list" \/ IsStr(arg)

\* the records appended by the loop of add
NewRecords(arg, decision, reason, reviewer, t) ==
    [i \in 1..Len(arg.keys) |->
        AdjudicationRecord(PyStr(arg.keys[i]), decision, reason, reviewer, t, "", "", "")]

\* a variant that checks the decision inside the loop, after the first append
LogAddLateCheck(recs, arg, decision, reason, reviewer, t) ==
    IF ~Iterable(arg) THEN [raised |-> "TypeError", records |-> recs]
    ELSE IF ~ValidDecision(decision)
    THEN [raised |-> "ValueError",
          records |-> IF arg.keys = <<>> THEN recs
                      ELSE Append(recs, NewRecords(arg, decision, reason, reviewer, t)[1])]
    ELSE [raised |-> "", records |-> recs \o NewRecords(arg, decision, reason, reviewer, t)]

\* AdjudicationLog.add(mdr_key, decision, reason, reviewer); t is datetime.now()
LogAdd(recs, arg, decision, reason, reviewer, t) ==
    IF ~ValidDecision(decision) THEN [raised |-> "ValueError", records |-> recs]
    ELSE IF ~Iterable(arg) THEN [raised |-> "TypeError", records |-> recs]
    ELSE [raised |-> "", records |-> recs \o NewRecords(arg, decision, reason, reviewer, t)]

----------------------------------------------------------------------------
(* Specification of a review session: decisions are recorded in a strategy *)
(* that starts without overrides and in an adjudication log that starts    *)
(* empty                                                                   *)

Decisions == {"include", "exclude", "maybe"}

\* keys handed to add_manual_decision
DecisionKeys == {StrKey("1"), IntKey(1), StrKey("2")}

DecisionKeyStrs == {PyStr(k) : k \in DecisionKeys}

\* mdr_key arguments handed to AdjudicationLog.add
AddArgs ==
    { OneKey(StrKey("1")),
      OneKey(IntKey(2)),
      KeyList(<< IntKey(2), StrKey("1") >>),
      KeyList(<<>>) }

Reviewers == {"Jake", "Sarah"}

InitReview ==
    /\ strategy = DeviceSearchStrategy("s", "d", <<>>, <<>>, <<>>, <<>>, <<>>, "", 0)
    /\ db = NotADatabase
    /\ result = NoResult
    /\ now = 0
    /\ last = NoCall
    /\ recent = [k \in DecisionKeyStrs |-> "none"]
    /\ records = <<>>
    /\ yaml_file = NoFile
    /\ loaded = NoStrategy
    /\ IdleLog
    /\ IdleCascade

\* strategy.add_manual_decision(mdr_key, decision)
add_manual_decision ==
    \E mdr_key \in DecisionKeys, decision \in Decisions :
        /\ last' = [op |-> "add_manual_decision",
                    outcome |-> IF ValidDecision(decision) THEN "" ELSE "ValueError",
                    arg |-> OneKey(mdr_key), decision |-> decision, reviewer |-> "",
                    was |-> recent[PyStr(mdr_key)], n_before |-> Len(records)]
        /\ IF ValidDecision(decision)
           THEN /\ now < MaxTime
                /\ now' = now + 1
                /\ strategy' = AddManualDecision(strategy, mdr_key, decision, now')
                /\ recent' = [recent EXCEPT ![PyStr(mdr_key)] = decision]
           ELSE UNCHANGED <<now, strategy, recent>>
        /\ UNCHANGED <<db, result, records, yaml_file, loaded, logvars, cascadevars, helpervars>>

\* log.add(mdr_key, decision, reason, reviewer)
add ==
    \E arg \in AddArgs, decision \in Decisions, reviewer \in Reviewers :
        LET t == IF now < MaxTime THEN now + 1 ELSE now
            out == LogAdd(records, arg, decision, "reason", reviewer, t)
        IN  /\ Len(out.records) <= MaxRecords
            /\ out.raised = "" => now < MaxTime
            /\ records' = out.records
            /\ now' = IF out.raised = "" THEN t ELSE now
            /\ last' = [op |-> "add", outcome |-> out.raised, arg |-> arg,
                        decision |-> decision, reviewer |-> reviewer,
                        was |-> "", n_before |-> Len(records)]
            /\ UNCHANGED <<strategy, db, result, recent, yaml_file, loaded, logvars, cascadevars, helpervars>>

NextReview == add_manual_decision \/ add

SpecReview == InitReview /\ [][NextReview]_vars

----------------------------------------------------------------------------
NoDuplicates(s) == \A i, j \in 1..Len(s) : s[i] = s[j] => i = j

\* C7: starting without overrides, after any sequence of add_manual_decision
\* calls a key is in inclusion_overrides exactly when its most recent decision
\* was 'include' and in exclusion_overrides exactly when it was 'exclude'; no
\* key is in both lists and none is twice in one list.
C7_OverridesFollowLastDecision ==
    /\ \A k \in DecisionKeyStrs :
          /\ StrKey(k) \in Range(strategy.inclusion_overrides) <=> recent[k] = "include"
          /\ StrKey(k) \in Range(strategy.exclusion_overrides) <=> recent[k] = "exclude"
    /\ Range(strategy.inclusion_overrides) \cup Range(strategy.exclusion_overrides)
          \subseteq {StrKey(k) : k \in DecisionKeyStrs}
    /\ Range(strategy.inclusion_overrides) \cap Range(strategy.exclusion_overrides) = {}
    /\ NoDuplicates(strategy.inclusion_overrides)
    /\ NoDuplicates(strategy.exclusion_overrides)

C7_Witness ==
    /\ last.op = "add_manual_decision" /\ last.outcome = ""
    /\ last.was = "include" /\ last.decision = "exclude"
    /\ last.arg = OneKey(IntKey(1))
    /\ StrKey("1") \in Range(strategy.exclusion_overrides)
    /\ strategy.inclusion_overrides # <<>>

\* C8: a decision other than 'include' or 'exclude' is rejected with ValueError
\* by AdjudicationLog.add and by add_manual_decision, and the rejected call
\* changes nothing: no record is appended (also for a list of keys), and the
\* override lists and updated_at are as before.
C8_InvalidDecisionRejected ==
    [][ (last'.op \in {"add", "add_manual_decision"} /\ ~ValidDecision(last'.decision)) =>
            /\ last'.outcome = "ValueError"
            /\ records' = records
            /\ strategy' = strategy ]_vars

C8_Witness ==
    /\ last.op = "add" /\ last.outcome = "ValueError"
    /\ last.arg.shape = "list" /\ Len(last.arg.keys) = 2
    /\ Len(records) = last.n_before /\ records # <<>>
    /\ strategy.inclusion_overrides # <<>>

\* C10: add with a valid decision accepts one key or a sequence of keys and
\* appends one record per given key, in the given order, at the end of the
\* log, with the key stored as a string and the given decision and reviewer;
\* the log grows by the number of keys given.
C10_AddAppendsOnePerKey ==
    (last.op = "add" /\ ValidDecision(last.decision)) =>
        /\ last.outcome = ""
        /\ Len(records) = last.n_before + Len(last.arg.keys)
        /\ \A i \in 1..Len(last.arg.keys) :
              /\ records[last.n_before + i].mdr_report_key = PyStr(last.arg.keys[i])
              /\ records[last.n_before + i].decision = last.decision
              /\ records[last.n_before + i].reviewer = last.reviewer
              /\ records[last.n_before + i].reason = "reason"

----------------------------------------------------------------------------
(* to_yaml / from_yaml.  In this part a Python value is tagged with its    *)
(* type, a YAML document is a mapping of nodes, and a scalar node carries  *)
(* the style the emitter chose, so that dumping and loading are computed.  *)

PyS(text) == [py |-> "str", text |-> text]

\* datetime.isoformat() and datetime.fromisoformat()
IsoPrefix == "2026-01-01T00:00:0"

IsoFormat(t) == IsoPrefix \o Decimal(t)

IsIso(text) == \E t \in 0..9 : text = IsoFormat(t)

FromIsoFormat(text) == CHOOSE t \in 0..9 : text = IsoFormat(t)

\* the type a plain (unquoted) scalar resolves to when loaded (YAML 1.1)
YamlResolve(text) ==
    CASE text \in {"", "~", "null"} -> "null"
      [] text \in {"yes", "no", "true", "false", "on", "off"} -> "bool"
      [] text \in {"123", "7"} -> "int"
      [] text \in {"1.5"} -> "float"
      [] IsIso(text) -> "timestamp"
      [] OTHER -> "str"

\* texts that cannot be written plain because of YAML indicators
HasIndicator(text) == text \in {"a: b", "- x", "# c"}

ScalarNode(style, tag, text) == [node |-> "scalar", style |-> style, tag |-> tag, text |-> text, items |-> <<>>]

SequenceNode(items) == [node |-> "seq", style |-> "block", tag |-> "seq", text |-> "", items |-> items]

\* yaml.dump of a str: plain when the plain text loads as the same str, quoted otherwise
DumpStr(v) ==
    IF YamlResolve(v.text) = "str" /\ ~HasIndicator(v.text)
    THEN ScalarNode("plain", "str", v.text)
    ELSE ScalarNode("quoted", "str", v.text)

\* yaml.safe_load of a scalar node
LoadScalar(n) ==
    IF n.style = "quoted" THEN PyS(n.text) ELSE [py |-> YamlResolve(n.text), text |-> n.text]

DumpStrList(vs) == SequenceNode([i \in 1..Len(vs) |-> DumpStr(vs[i])])

LoadStrList(n) == [i \in 1..Len(n.items) |-> LoadScalar(n.items[i])]

\* a boolean search expression: keywords are scalars, AND groups nested sequences
DumpCriteria(c) ==
    SequenceNode([i \in 1..Len(c) |->
        IF c[i].kind = "str" THEN DumpStr(c[i].terms[1]) ELSE DumpStrList(c[i].terms)])

LoadCriteria(n) ==
    [i \in 1..Len(n.items) |->
        IF n.items[i].node = "scalar"
        THEN Term(LoadScalar(n.items[i]))
        ELSE Group(LoadStrList(n.items[i]))]

\* report keys of the override lists: a str is dumped as a str, an int as an int
DumpKey(k) == IF k.kind = "str" THEN DumpStr(PyS(k.s)) ELSE ScalarNode("plain", "int", Decimal(k.n))

LoadKey(n) ==
    LET v == LoadScalar(n)
    IN  IF v.py = "int"
        THEN IntKey(CHOOSE i \in 0..99 : Decimal(i) = v.text)
        ELSE StrKey(v.text)

DumpKeys(ks) == SequenceNode([i \in 1..Len(ks) |-> DumpKey(ks[i])])

LoadKeys(n) == [i \in 1..Len(n.items) |-> LoadKey(n.items[i])]

\* to_yaml: asdict(self), the two timestamps as ISO 8601 strings, yaml.dump
ToYaml(s) ==
    [name |-> DumpStr(s.name),
     description |-> DumpStr(s.description),
     version |-> DumpStr(PyS(s.version)),
     author |-> DumpStr(PyS(s.author)),
     created_at |-> DumpStr(PyS(IsoFormat(s.created_at))),
     updated_at |-> DumpStr(PyS(IsoFormat(s.updated_at))),
     broad_criteria |-> DumpCriteria(s.broad_criteria),
     narrow_criteria |-> DumpCriteria(s.narrow_criteria),
     known_variants |-> SequenceNode(<<>>),
     exclusion_patterns |-> DumpStrList(s.exclusion_patterns),
     inclusion_overrides |-> DumpKeys(s.inclusion_overrides),
     exclusion_overrides |-> DumpKeys(s.exclusion_overrides),
     search_rationale |-> DumpStr(s.search_rationale)]

\* the timestamp conversion of from_yaml: only a str is parsed
LoadTimestamp(n) ==
    LET v == LoadScalar(n)
    IN  IF v.py = "str" THEN FromIsoFormat(v.text) ELSE FromIsoFormat(n.text)

\* a variant that passes only the search criteria to the constructor
FromYamlCriteriaOnly(doc) ==
    [name |-> LoadScalar(doc.name),
     description |-> LoadScalar(doc.description),
     version |-> "1.0.0",
     author |-> "",
     created_at |-> LoadTimestamp(doc.created_at),
     updated_at |-> LoadTimestamp(doc.updated_at),
     broad_criteria |-> LoadCriteria(doc.broad_criteria),
     narrow_criteria |-> LoadCriteria(doc.narrow_criteria),
     known_variants |-> <<>>,
     exclusion_patterns |-> <<>>,
     inclusion_overrides |-> <<>>,
     exclusion_overrides |-> <<>>,
     search_rationale |-> PyS("")]

\* from_yaml: yaml.safe_load, the two timestamps parsed, cls(**data)
FromYaml(doc) ==
    [name |-> LoadScalar(doc.name),
     description |-> LoadScalar(doc.description),
     version |-> LoadScalar(doc.version).text,
     author |-> LoadScalar(doc.author).text,
     created_at |-> LoadTimestamp(doc.created_at),
     updated_at |-> LoadTimestamp(doc.updated_at),
     broad_criteria |-> LoadCriteria(doc.broad_criteria),
     narrow_criteria |-> LoadCriteria(doc.narrow_criteria),
     known_variants |-> <<>>,
     exclusion_patterns |-> LoadStrList(doc.exclusion_patterns),
     inclusion_overrides |-> LoadKeys(doc.inclusion_overrides),
     exclusion_overrides |-> LoadKeys(doc.exclusion_overrides),
     search_rationale |-> LoadScalar(doc.search_rationale)]

----------------------------------------------------------------------------
(* Specification of the document round trip *)

YamlNames == {PyS("thrombectomy"), PyS("123"), PyS("")}

YamlDescriptions == {PyS("Rotational thrombectomy devices"), PyS("yes")}

YamlRationales == {PyS("Test rationale"), PyS("a: b"), PyS("null")}

YamlPatterns ==
    { <<>>,
      << PyS("ultrasonic"), PyS("dental") >>,
      << PyS("no"), PyS("1.5"), PyS("- x") >> }

YamlCriteria ==
    { [broad  |-> << Group(<< PyS("argon"), PyS("cleaner") >>), Term(PyS("angiojet")) >>,
       narrow |-> << Group(<< PyS("argon"), PyS("cleaner"), PyS("thromb") >>) >>],
      [broad  |-> << Term(PyS("7")), Group(<< PyS("on") >>), Term(PyS("argon")) >>,
       narrow |-> << Group(<<>>), Term(PyS("# c")) >>],
      [broad  |-> <<>>, narrow |-> <<>>] }

YamlOverrides ==
    { [incl |-> <<>>, excl |-> <<>>],
      [incl |-> << StrKey("1234567"), IntKey(7) >>, excl |-> << StrKey("7") >>] }

InitYaml ==
    /\ \E n \in YamlNames, d \in YamlDescriptions, r \in YamlRationales,
          c \in YamlCriteria, p \in YamlPatterns, o \in YamlOverrides :
          strategy = DeviceSearchStrategy(n, d, c.broad, c.narrow, p, o.incl, o.excl, r, 0)
    /\ db = NotADatabase
    /\ result = NoResult
    /\ Idle

\* strategy.to_yaml(path)
to_yaml ==
    /\ yaml_file' = [exists |-> TRUE, doc |-> ToYaml(strategy)]
    /\ last' = [NoCall EXCEPT !.op = "to_yaml"]
    /\ UNCHANGED <<strategy, db, result, now, recent, records, loaded, logvars, cascadevars, helpervars>>

\* loaded = DeviceSearchStrategy.from_yaml(path)
from_yaml ==
    /\ IF yaml_file.exists
       THEN /\ loaded' = FromYaml(yaml_file.doc)
            /\ last' = [NoCall EXCEPT !.op = "from_yaml"]
       ELSE /\ loaded' = loaded
            /\ last' = [NoCall EXCEPT !.op = "from_yaml", !.outcome = "FileNotFoundError"]
    /\ UNCHANGED <<strategy, db, result, now, recent, records, yaml_file, logvars, cascadevars, helpervars>>

NextYaml == to_yaml \/ from_yaml

SpecYaml == InitYaml /\ [][NextYaml]_vars

\* C9: writing a strategy with to_yaml and reading it back with from_yaml
\* preserves name, description, broad_criteria (nested AND groups and their
\* order included), narrow_criteria, exclusion_patterns and search_rationale.
C9_YamlRoundTrip ==
    loaded # NoStrategy =>
        /\ loaded.name = strategy.name
        /\ loaded.description = strategy.description
        /\ loaded.broad_criteria = strategy.broad_criteria
        /\ loaded.narrow_criteria = strategy.narrow_criteria
        /\ loaded.exclusion_patterns = strategy.exclusion_patterns
        /\ loaded.search_rationale = strategy.search_rationale

C9_Witness ==
    /\ loaded # NoStrategy
    /\ Len(loaded.broad_criteria) = 3
    /\ loaded.broad_criteria[2] = Group(<< PyS("on") >>)
    /\ loaded.exclusion_patterns = << PyS("no"), PyS("1.5"), PyS("- x") >>
    /\ loaded.name = PyS("123")
    /\ loaded.search_rationale = PyS("null")

----------------------------------------------------------------------------
(* The end-to-end scenario: five reports, three matching the broad search   *)
(* only, one matching the narrow search, one matching the broad search with *)
(* "ultrasonic" in its name                                                 *)

argon == <<"a", "r", "g", "o", "n">>
cleaner == <<"c", "l", "e", "a", "n", "e", "r">>
angiojet == <<"a", "n", "g", "i", "o", "j", "e", "t">>
thromb == <<"t", "h", "r", "o", "m", "b">>
ultrasonic == <<"u", "l", "t", "r", "a", "s", "o", "n", "i", "c">>

ScenarioStrategy ==
    DeviceSearchStrategy("thrombectomy", "Rotational thrombectomy devices",
                         << Group(<<argon, cleaner>>), Term(angiojet) >>,
                         << Group(<<argon, cleaner, thromb>>) >>,
                         << ultrasonic >>, <<>>, <<>>, "Test rationale", 0)

\* brand names by the part they play in the scenario
BroadOnlyNames == { <<"A", "r", "g", "o", "n", " ", "C", "l", "e", "a", "n", "e", "r", " ", "X", "T">>, <<"A", "n", "g", "i", "o", "J", "e", "t">> }

NarrowNames == { <<"A", "r", "g", "o", "n", " ", "C", "l", "e", "a", "n", "e", "r", " ", "T", "h", "r", "o", "m", "b", "e", "c", "t", "o", "m", "y">>, <<"t", "h", "r", "o", "m", "b", "u", "s", " ", "c", "l", "e", "a", "n", "e", "r", ",", " ", "a", "r", "g", "o", "n">> }

UltrasonicNames == { <<"u", "l", "t", "r", "a", "s", "o", "n", "i", "c", " ", "a", "r", "g", "o", "n", " ", "c", "l", "e", "a", "n", "e", "r">>, <<"A", "n", "g", "i", "o", "J", "e", "t", " ", "U", "l", "t", "r", "a", "s", "o", "n", "i", "c">> }

\* the parts of the five reports, in every order of the rows
ScenarioParts ==
    { parts \in [1..5 -> {"broad", "narrow", "ultrasonic"}] :
        /\ Cardinality({i \in 1..5 : parts[i] = "broad"}) = 3
        /\ Cardinality({i \in 1..5 : parts[i] = "narrow"}) = 1
        /\ Cardinality({i \in 1..5 : parts[i] = "ultrasonic"}) = 1 }

NamesOfPart(part) ==
    CASE part = "broad" -> BroadOnlyNames
      [] part = "narrow" -> NarrowNames
      [] part = "ultrasonic" -> UltrasonicNames

\* five reports of five events
ScenarioStores ==
    { [is_maude_database |-> TRUE,
       columns |-> AllColumns,
       rows |-> [i \in 1..5 |->
                    Report(KeyOf(i, key_type), i, brands[i], <<"c", "a", "t", "h">>, Manufacturer)]] :
      brands \in UNION { {b \in [1..5 -> BroadOnlyNames \cup NarrowNames \cup UltrasonicNames] :
                            \A i \in 1..5 : b[i] \in NamesOfPart(parts[i])} :
                         parts \in ScenarioParts },
      key_type \in {"int", "str"} }

InitScenario ==
    /\ strategy = ScenarioStrategy
    /\ db \in ScenarioStores
    /\ result = NoResult
    /\ Idle

SpecScenario == InitScenario /\ [][Next]_vars

\* C6 as stated: in the scenario apply returns 1 included, 1 excluded and
\* 2 needs_review reports.
C6_ScenarioCountsAsStated ==
    Returned =>
        /\ Len(result.included) = 1
        /\ Len(result.excluded) = 1
        /\ Len(result.needs_review) = 2

\* C6 as amended: in the scenario apply returns 1 included report (the narrow
\* match), 1 excluded report (the one with "ultrasonic" in its name) and 3
\* needs_review reports (the three that match the broad search only).
C6_ScenarioCounts ==
    Returned =>
        /\ Len(result.included) = 1
        /\ Len(result.excluded) = 1
        /\ Len(result.needs_review) = 3
        /\ \A i \in 1..5 :
              LET k == PyStr(db.rows[i].MDR_REPORT_KEY)
                  name == db.rows[i].BRAND_NAME
              IN  /\ name \in NarrowNames => k \in Keys(result.included)
                  /\ name \in UltrasonicNames => k \in Keys(result.excluded)
                  /\ name \in BroadOnlyNames => k \in Keys(result.needs_review)

C6_Witness ==
    /\ Returned
    /\ strategy = ScenarioStrategy
    /\ Len(db.rows) = 5
    /\ db.rows[1].BRAND_NAME \in UltrasonicNames
    /\ db.rows[5].BRAND_NAME \in NarrowNames
    /\ result.excluded # <<>>

----------------------------------------------------------------------------
(* AdjudicationLog: the backing file.  A file is its header and its rows of *)
(* cells, as the csv module writes and reads them.  The reason of a record  *)
(* is a sequence of one-character strings, so that what reading does to     *)
(* line ends is computed; the other cells are strings without line ends.    *)

CR == "\r"
LF == "\n"

\* the value None; it is kept apart from every text of the model
PyNone == "<None>"
NoneText == << "<None>" >>

\* the header row of to_csv
CsvColumns ==
    << "mdr_report_key", "decision", "reason", "reviewer",
       "date", "strategy_version", "device_info", "search_group" >>

\* csv.writer writes None as the empty field
WriteCell(v) == IF v = PyNone THEN "" ELSE v

WriteText(v) == IF v = NoneText THEN <<>> ELSE v

\* the row to_csv writes for one record
WriteRow(record) ==
    << WriteCell(record.mdr_report_key), WriteCell(record.decision),
       WriteText(record.reason), WriteCell(record.reviewer),
       IsoFormat(record.date), WriteCell(record.strategy_version),
       WriteCell(record.device_info), WriteCell(record.search_group) >>

\* a variant that opens the file to append
ToCsvAppend(file, recs) ==
    [exists |-> TRUE, header |-> CsvColumns,
     rows |-> file.rows \o [i \in 1..Len(recs) |-> WriteRow(recs[i])]]

\* to_csv: the file is opened with 'w', which empties it, and is written whole
ToCsv(file, recs) ==
    [exists |-> TRUE, header |-> CsvColumns,
     rows |-> [i \in 1..Len(recs) |-> WriteRow(recs[i])]]

\* open(self.path, 'r') reads with universal newlines: "\r\n" and "\r" arrive as "\n",
\* inside quoted fields as well
RECURSIVE UniversalNewlines(_)
UniversalNewlines(text) ==
    IF text = <<>> THEN <<>>
    ELSE IF Head(text) = CR
         THEN IF Len(text) > 1 /\ text[2] = LF
              THEN <<LF>> \o UniversalNewlines(Tail(Tail(text)))
              ELSE <<LF>> \o UniversalNewlines(Tail(text))
         ELSE <<Head(text)>> \o UniversalNewlines(Tail(text))

HasColumn(header, col) == \E i \in 1..Len(header) : header[i] = col

ColumnIndex(header, col) == CHOOSE i \in 1..Len(header) : header[i] = col

\* csv.DictReader gives a name of the header the row is too short for the value None
IsShort(header, cells, col) == HasColumn(header, col) /\ ColumnIndex(header, col) > Len(cells)

\* row.get(col, ''): the cell as read, None for a short row, '' for a missing column
RowGet(header, cells, col) ==
    IF ~HasColumn(header, col) THEN (IF col = "reason" THEN <<>> ELSE "")
    ELSE IF IsShort(header, cells, col) THEN (IF col = "reason" THEN NoneText ELSE PyNone)
    ELSE IF col = "reason" THEN UniversalNewlines(cells[ColumnIndex(header, col)])
    ELSE cells[ColumnIndex(header, col)]

\* datetime.fromisoformat(row['date']), with datetime.now() (t) on ValueError or
\* KeyError; fromisoformat(None) raises TypeError, which is not caught
RowDate(header, cells, t) ==
    IF ~HasColumn(header, "date") THEN [raised |-> "", date |-> t]
    ELSE IF IsShort(header, cells, "date") THEN [raised |-> "TypeError", date |-> t]
    ELSE IF IsIso(cells[ColumnIndex(header, "date")])
    THEN [raised |-> "", date |-> FromIsoFormat(cells[ColumnIndex(header, "date")])]
    ELSE [raised |-> "", date |-> t]

\* the rows csv.DictReader yields: blank lines are skipped
DataRows(file) == SelectSeq(file.rows, LAMBDA cells : cells # <<>>)

\* the record built from one row
RowRecord(header, cells, t) ==
    AdjudicationRecord(RowGet(header, cells, "mdr_report_key"),
                       RowGet(header, cells, "decision"),
                       RowGet(header, cells, "reason"),
                       RowGet(header, cells, "reviewer"),
                       RowDate(header, cells, t).date,
                       RowGet(header, cells, "strategy_version"),
                       RowGet(header, cells, "device_info"),
                       RowGet(header, cells, "search_group"))

\* _load_from_csv; t is datetime.now() at the load
LoadFromCsv(file, t) ==
    LET data == DataRows(file)
    IN  IF \E i \in 1..Len(data) : RowDate(file.header, data[i], t).raised # ""
        THEN [raised |-> "TypeError", records |-> <<>>]
        ELSE [raised |-> "",
              records |-> [i \in 1..Len(data) |-> RowRecord(file.header, data[i], t)]]

\* a variant that starts every object empty
NewLogEmpty(file, t) == [raised |-> "", records |-> <<>>]

\* AdjudicationLog(path): the records of a new object
NewLog(file, t) ==
    IF file.exists THEN LoadFromCsv(file, t) ELSE [raised |-> "", records |-> <<>>]

\* AdjudicationLog.from_csv(path)
FromCsv(file, t) ==
    IF ~file.exists THEN [raised |-> "FileNotFoundError", records |-> <<>>]
    ELSE NewLog(file, t)

\* get_inclusion_keys, get_exclusion_keys
GetInclusionKeys(recs) == {recs[i].mdr_report_key : i \in {j \in 1..Len(recs) : recs[j].decision = "include"}}

GetExclusionKeys(recs) == {recs[i].mdr_report_key : i \in {j \in 1..Len(recs) : recs[j].decision = "exclude"}}

\* get_statistics (the counts)
GetStatistics(recs) ==
    [total_decisions |-> Len(recs),
     inclusions |-> Cardinality({i \in 1..Len(recs) : recs[i].decision = "include"}),
     exclusions |-> Cardinality({i \in 1..Len(recs) : recs[i].decision = "exclude"})]

----------------------------------------------------------------------------
(* AdjudicationLog.add with its optional arguments, include_remaining and  *)
(* exclude_remaining.  A candidate table is its set of columns and its     *)
(* rows; a row holds a value for every column the model knows, and the     *)
(* set of columns says which of them the table has.                        *)

\* a missing value of a table (NaN)
NaN == "<NaN>"

\* a variant that keeps one record per key: a new decision replaces the older ones
LogAddLatestWins(recs, arg, decision, reason, reviewer, version, info, group, t) ==
    IF ~ValidDecision(decision) THEN [raised |-> "ValueError", records |-> recs]
    ELSE IF ~Iterable(arg) THEN [raised |-> "TypeError", records |-> recs]
    ELSE [raised |-> "",
          records |->
              SelectSeq(recs, LAMBDA r : \A i \in 1..Len(arg.keys) :
                                             r.mdr_report_key # PyStr(arg.keys[i]))
              \o [i \in 1..Len(arg.keys) |->
                    AdjudicationRecord(PyStr(arg.keys[i]), decision, reason, reviewer, t,
                                       version, info, group)]]

\* add(mdr_key, decision, reason, reviewer, strategy_version, device_info, search_group)
LogAddWith(recs, arg, decision, reason, reviewer, version, info, group, t) ==
    IF ~ValidDecision(decision) THEN [raised |-> "ValueError", records |-> recs]
    ELSE IF ~Iterable(arg) THEN [raised |-> "TypeError", records |-> recs]
    ELSE [raised |-> "",
          records |->
              recs \o [i \in 1..Len(arg.keys) |->
                         AdjudicationRecord(PyStr(arg.keys[i]), decision, reason, reviewer, t,
                                            version, info, group)]]

\* decided_keys = {record.mdr_report_key for record in self.records}
DecidedKeys(recs) == {recs[i].mdr_report_key : i \in 1..Len(recs)}

\* a variant that does not filter: every candidate row remains
RemainingRowsAll(recs, frame) == frame.rows

\* a variant that skips only the keys the log holds an include record for
RemainingRowsUnlessIncluded(recs, frame) ==
    SelectSeq(frame.rows, LAMBDA row : PyStr(row.MDR_REPORT_KEY) \notin GetInclusionKeys(recs))

\* remaining = needs_review_df[~needs_review_df['MDR_REPORT_KEY'].astype(str).isin(decided_keys)]
RemainingRows(recs, frame) ==
    SelectSeq(frame.rows, LAMBDA row : PyStr(row.MDR_REPORT_KEY) \notin DecidedKeys(recs))

\* "" if pd.isna(val) else str(val)
StrOrEmpty(val) == IF val = NaN THEN "" ELSE val

\* device_info of a row: device_info_column is "" when the caller gives None
RowDeviceInfo(frame, row, device_info_column) ==
    IF device_info_column # "" /\ device_info_column \in frame.columns
    THEN StrOrEmpty(row[device_info_column])
    ELSE ""

\* search_group of a row, when the table has the column
RowSearchGroup(frame, row) ==
    IF "search_group" \in frame.columns THEN StrOrEmpty(row.search_group) ELSE ""

\* the loop over remaining.iterrows(): one call of add per row
RECURSIVE AddRows(_, _, _, _, _, _, _, _, _)
AddRows(recs, frame, rows, decision, reason, reviewer, version, device_info_column, t) ==
    IF rows = <<>> THEN [records |-> recs, count |-> 0]
    ELSE LET row == Head(rows)
             mdr_key == OneKey(StrKey(PyStr(row.MDR_REPORT_KEY)))
             out == LogAddWith(recs, mdr_key, decision, reason, reviewer, version,
                               RowDeviceInfo(frame, row, device_info_column),
                               RowSearchGroup(frame, row), t)
             rest == AddRows(out.records, frame, Tail(rows), decision, reason, reviewer,
                             version, device_info_column, t)
         IN  [records |-> rest.records, count |-> rest.count + 1]

\* a variant that returns the number of candidate rows
IncludeRemainingCountsAll(recs, frame, reason, reviewer, version, device_info_column, t) ==
    IF "MDR_REPORT_KEY" \notin frame.columns
    THEN [raised |-> "ValueError", records |-> recs, count |-> 0]
    ELSE LET remaining == RemainingRows(recs, frame)
             out == AddRows(recs, frame, remaining, "include", reason, reviewer, version,
                            device_info_column, t)
         IN  [raised |-> "", records |-> out.records, count |-> Len(frame.rows)]

\* include_remaining(needs_review_df, reason, reviewer, strategy_version, device_info_column)
IncludeRemaining(recs, frame, reason, reviewer, version, device_info_column, t) ==
    IF "MDR_REPORT_KEY" \notin frame.columns
    THEN [raised |-> "ValueError", records |-> recs, count |-> 0]
    ELSE LET remaining == RemainingRows(recs, frame)
             out == AddRows(recs, frame, remaining, "include", reason, reviewer, version,
                            device_info_column, t)
         IN  [raised |-> "", records |-> out.records, count |-> out.count]

\* a variant that puts the new records in front of the log
ExcludeRemainingInFront(recs, frame, reason, reviewer, version, device_info_column, t) ==
    IF "MDR_REPORT_KEY" \notin frame.columns
    THEN [raised |-> "ValueError", records |-> recs, count |-> 0]
    ELSE LET remaining == RemainingRows(recs, frame)
             out == AddRows(<<>>, frame, remaining, "exclude", reason, reviewer, version,
                            device_info_column, t)
         IN  [raised |-> "", records |-> out.records \o recs, count |-> out.count]

\* exclude_remaining(needs_review_df, reason, reviewer, strategy_version, device_info_column)
ExcludeRemaining(recs, frame, reason, reviewer, version, device_info_column, t) ==
    IF "MDR_REPORT_KEY" \notin frame.columns
    THEN [raised |-> "ValueError", records |-> recs, count |-> 0]
    ELSE LET remaining == RemainingRows(recs, frame)
             out == AddRows(recs, frame, remaining, "exclude", reason, reviewer, version,
                            device_info_column, t)
         IN  [raised |-> "", records |-> out.records, count |-> out.count]

----------------------------------------------------------------------------
(* Inputs of the log operations *)

\* reasons as a reviewer types or pastes them
Ok == << "o", "k" >>
TwoLines == << "a", LF, "b" >>
PastedLines == << "a", CR, LF, "b" >>

\* calls of add
LogAddCalls ==
    { [arg |-> OneKey(StrKey("1")), decision |-> "include", reason |-> Ok, reviewer |-> "Jake"],
      [arg |-> OneKey(StrKey("1")), decision |-> "exclude", reason |-> PastedLines,
       reviewer |-> "Sarah"],
      [arg |-> KeyList(<< IntKey(2), StrKey("3") >>), decision |-> "exclude",
       reason |-> TwoLines, reviewer |-> "Jake"],
      [arg |-> OneKey(StrKey("2")), decision |-> "maybe", reason |-> Ok, reviewer |-> "Jake"] }

Row(key, brand, group) == [MDR_REPORT_KEY |-> key, BRAND_NAME |-> brand, search_group |-> group]

\* candidate tables; each holds a text column, as the frames of the store do
Frames ==
    { [columns |-> {"MDR_REPORT_KEY", "BRAND_NAME"},
       rows |-> << Row(IntKey(1), "Cleaner", ""), Row(IntKey(2), NaN, "") >>],
      [columns |-> {"MDR_REPORT_KEY", "BRAND_NAME", "search_group"},
       rows |-> << Row(StrKey("2"), "AngioJet", "g1"), Row(StrKey("2"), "AngioJet", NaN) >>],
      [columns |-> {"MDR_REPORT_KEY", "BRAND_NAME"},
       rows |-> << Row(StrKey("3"), "Cleaner", "") >>],
      [columns |-> {"BRAND_NAME"}, rows |-> << Row(IntKey(1), "Cleaner", "") >>] }

\* calls of include_remaining and exclude_remaining
BulkCalls ==
    { [table |-> f, reason |-> Ok, reviewer |-> "Jake", version |-> "v1.0",
       column |-> IF "search_group" \in f.columns THEN "" ELSE "BRAND_NAME"] : f \in Frames }

\* the header of create_project, without search_group
OldColumns == SubSeq(CsvColumns, 1, 7)

\* backing files found at construction: none, or one written by hand or by an older version
LogFiles ==
    { NoCsvFile,
      [exists |-> TRUE, header |-> OldColumns, rows |-> <<>>],
      [exists |-> TRUE, header |-> OldColumns,
       rows |-> << << "1", "include", Ok, "Jake", IsoFormat(0), "v1.0", "Cleaner" >>,
                   <<>>,
                   << "2", "exclude", Ok, "Sarah", "yesterday", "", "" >> >>],
      [exists |-> TRUE, header |-> CsvColumns,
       rows |-> << << "1", "include", Ok, "Jake", "", "v1.0", "", "g1" >>,
                   << "3", "maybe", Ok, "Jake", IsoFormat(0), "v1.0", "", "" >> >>],
      [exists |-> TRUE, header |-> CsvColumns,
       rows |-> << << "1", "include", Ok, "Jake", IsoFormat(0), "v1.0", "Cleaner" >> >>],
      [exists |-> TRUE, header |-> CsvColumns,
       rows |-> << << "1", "include", Ok, "Jake", IsoFormat(0), "v1.0", "Cleaner", "" >>,
                   << "2", "exclude", Ok, "Sarah" >> >>],
      [exists |-> TRUE, header |-> SubSeq(CsvColumns, 1, 4),
       rows |-> << << "2", "exclude", Ok, "Sarah" >> >>] }

----------------------------------------------------------------------------
(* Specification of a process that works on adjudication logs with a       *)
(* backing file.  DOMAIN logs is the set of names that hold an object.     *)

\* datetime.now(): the clock has moved on, or reads as before once it is at its bound
Tick == IF now < MaxLogTime THEN now + 1 ELSE now

\* a load calls datetime.now() when a row's date is missing or does not parse
ReadsClock(file) ==
    /\ file.exists
    /\ \E i \in 1..Len(DataRows(file)) :
          \/ ~HasColumn(file.header, "date")
          \/ IsShort(file.header, DataRows(file)[i], "date")
          \/ ~IsIso(DataRows(file)[i][ColumnIndex(file.header, "date")])

IsOpen(i) == logs[i].open

\* the records held by the other objects
RECURSIVE HeldBy(_)
HeldBy(others) ==
    IF others = {} THEN 0
    ELSE LET j == CHOOSE x \in others : TRUE
         IN  Len(logs[j].records) + HeldBy(others \ {j})

\* the bound of the model on what the objects hold after object i has grown to recs
Fits(i, recs) == Len(recs) + HeldBy(DOMAIN logs \ {i}) <= MaxLog

Called(op, i, outcome) ==
    [NoLogCall EXCEPT !.op = op, !.inst = i, !.outcome = outcome,
                      !.n_before = Len(logs[i].records)]

Dirty(n) == IF n > 0 THEN [saved EXCEPT !.unsaved = 1] ELSE saved

NotLog == <<strategy, db, result, last, recent, records, yaml_file, loaded, cascadevars, helpervars>>

\* logs[i] = AdjudicationLog(path)
open_log ==
    \E i \in DOMAIN logs :
        LET out == NewLog(csv_file, Tick)
        IN  /\ logs' = IF out.raised = ""
                       THEN [logs EXCEPT ![i] = [open |-> TRUE, records |-> out.records]]
                       ELSE logs
            /\ log_last' = Called("AdjudicationLog", i, out.raised)
            /\ now' = IF ReadsClock(csv_file) THEN Tick ELSE now
            /\ UNCHANGED <<csv_file, saved, NotLog>>

\* logs[i] = AdjudicationLog.from_csv(path)
from_csv ==
    \E i \in DOMAIN logs :
        LET out == FromCsv(csv_file, Tick)
        IN  /\ logs' = IF out.raised = ""
                       THEN [logs EXCEPT ![i] = [open |-> TRUE, records |-> out.records]]
                       ELSE logs
            /\ log_last' = Called("from_csv", i, out.raised)
            /\ now' = IF ReadsClock(csv_file) THEN Tick ELSE now
            /\ UNCHANGED <<csv_file, saved, NotLog>>

\* logs[i].add(mdr_key, decision, reason, reviewer)
log_add ==
    \E i \in DOMAIN logs, c \in LogAddCalls :
        LET out == LogAddWith(logs[i].records, c.arg, c.decision, c.reason, c.reviewer,
                              "", "", "", Tick)
        IN  /\ IsOpen(i)
            /\ Fits(i, out.records)
            /\ logs' = [logs EXCEPT ![i].records = out.records]
            /\ log_last' = [Called("add", i, out.raised) EXCEPT !.decision = c.decision]
            /\ now' = IF Len(out.records) > Len(logs[i].records) THEN Tick ELSE now
            /\ saved' = Dirty(Len(out.records) - Len(logs[i].records))
            /\ UNCHANGED <<csv_file, NotLog>>

\* logs[i].include_remaining(needs_review_df, reason, reviewer, strategy_version, column)
include_remaining ==
    \E i \in DOMAIN logs, c \in BulkCalls :
        LET out == IncludeRemaining(logs[i].records, c.table, c.reason, c.reviewer,
                                    c.version, c.column, Tick)
        IN  /\ IsOpen(i)
            /\ Fits(i, out.records)
            /\ logs' = [logs EXCEPT ![i].records = out.records]
            /\ log_last' = [Called("include_remaining", i, out.raised) EXCEPT
                               !.returned = out.count, !.decision = "include",
                               !.table = c.table]
            /\ now' = IF Len(out.records) > Len(logs[i].records) THEN Tick ELSE now
            /\ saved' = Dirty(Len(out.records) - Len(logs[i].records))
            /\ UNCHANGED <<csv_file, NotLog>>

\* logs[i].exclude_remaining(needs_review_df, reason, reviewer, strategy_version, column)
exclude_remaining ==
    \E i \in DOMAIN logs, c \in BulkCalls :
        LET out == ExcludeRemaining(logs[i].records, c.table, c.reason, c.reviewer,
                                    c.version, c.column, Tick)
        IN  /\ IsOpen(i)
            /\ Fits(i, out.records)
            /\ logs' = [logs EXCEPT ![i].records = out.records]
            /\ log_last' = [Called("exclude_remaining", i, out.raised) EXCEPT
                               !.returned = out.count, !.decision = "exclude",
                               !.table = c.table]
            /\ now' = IF Len(out.records) > Len(logs[i].records) THEN Tick ELSE now
            /\ saved' = Dirty(Len(out.records) - Len(logs[i].records))
            /\ UNCHANGED <<csv_file, NotLog>>

\* logs[i].to_csv()
to_csv ==
    \E i \in DOMAIN logs :
        /\ IsOpen(i)
        /\ csv_file' = ToCsv(csv_file, logs[i].records)
        /\ saved' = [by |-> i, records |-> logs[i].records, unsaved |-> 0,
                     savers |-> saved.savers \cup {i}]
        /\ log_last' = Called("to_csv", i, "")
        /\ UNCHANGED <<logs, now, NotLog>>

\* logs[i].get_inclusion_keys()
get_inclusion_keys ==
    \E i \in DOMAIN logs :
        /\ IsOpen(i)
        /\ log_last' = [Called("get_inclusion_keys", i, "") EXCEPT
                           !.keys = GetInclusionKeys(logs[i].records)]
        /\ UNCHANGED <<logs, csv_file, saved, now, NotLog>>

\* logs[i].get_exclusion_keys()
get_exclusion_keys ==
    \E i \in DOMAIN logs :
        /\ IsOpen(i)
        /\ log_last' = [Called("get_exclusion_keys", i, "") EXCEPT
                           !.keys = GetExclusionKeys(logs[i].records)]
        /\ UNCHANGED <<logs, csv_file, saved, now, NotLog>>

\* logs[i].get_statistics()
get_statistics ==
    \E i \in DOMAIN logs :
        /\ IsOpen(i)
        /\ log_last' = [Called("get_statistics", i, "") EXCEPT
                           !.stats = GetStatistics(logs[i].records)]
        /\ UNCHANGED <<logs, csv_file, saved, now, NotLog>>

\* the process ends: its objects are gone, the file stays
stop ==
    /\ \E i \in DOMAIN logs : IsOpen(i)
    /\ logs' = [i \in DOMAIN logs |-> NoLog]
    /\ log_last' = [NoLogCall EXCEPT !.op = "stop"]
    /\ UNCHANGED <<csv_file, saved, now, NotLog>>

InitLog ==
    /\ strategy = DeviceSearchStrategy("s", "d", <<>>, <<>>, <<>>, <<>>, <<>>, "", 0)
    /\ db = NotADatabase
    /\ result = NoResult
    /\ now = 0
    /\ last = NoCall
    /\ recent = <<>>
    /\ records = <<>>
    /\ yaml_file = NoFile
    /\ loaded = NoStrategy
    /\ logs = [i \in {"a"} |-> NoLog]
    /\ csv_file \in LogFiles
    /\ log_last = NoLogCall
    /\ saved = NeverSaved
    /\ IdleCascade

NextLog ==
    \/ open_log
    \/ from_csv
    \/ log_add
    \/ include_remaining
    \/ exclude_remaining
    \/ to_csv
    \/ get_inclusion_keys
    \/ get_exclusion_keys
    \/ get_statistics
    \/ stop

SpecLog == InitLog /\ [][NextLog]_vars

\* two objects on one path, no file yet or the empty one of create_project
InitWriters ==
    /\ strategy = DeviceSearchStrategy("s", "d", <<>>, <<>>, <<>>, <<>>, <<>>, "", 0)
    /\ db = NotADatabase
    /\ result = NoResult
    /\ now = 0
    /\ last = NoCall
    /\ recent = <<>>
    /\ records = <<>>
    /\ yaml_file = NoFile
    /\ loaded = NoStrategy
    /\ logs = [i \in {"a", "b"} |-> NoLog]
    /\ csv_file \in {NoCsvFile, [exists |-> TRUE, header |-> OldColumns, rows |-> <<>>]}
    /\ log_last = NoLogCall
    /\ saved = NeverSaved
    /\ IdleCascade

\* the writers open the path, add and save
NextWriters == open_log \/ log_add \/ to_csv

SpecWriters == InitWriters /\ [][NextWriters]_vars

----------------------------------------------------------------------------
(* What the claims about the log speak of *)

IsPrefix(s, t) == Len(s) <= Len(t) /\ SubSeq(t, 1, Len(s)) = s

\* the operations on an existing object
LogOperations ==
    {"add", "include_remaining", "exclude_remaining", "to_csv",
     "get_inclusion_keys", "get_exclusion_keys", "get_statistics"}

BulkOperations == {"include_remaining", "exclude_remaining"}

LoadOperations == {"AdjudicationLog", "from_csv"}

\* the object the last call was made on
Target == logs[log_last.inst].records

\* its records before the last call, and the ones the call appended
Before == SubSeq(Target, 1, log_last.n_before)

Appended == SubSeq(Target, log_last.n_before + 1, Len(Target))

\* the candidate rows the last bulk call had to decide
Undecided == SelectSeq(log_last.table.rows, LAMBDA row : PyStr(row.MDR_REPORT_KEY) \notin DecidedKeys(Before))

\* C11: across add, include_remaining, exclude_remaining, to_csv and the
\* queries, the records an object held before the operation are a prefix of
\* the records it holds after it: nothing is removed, reordered or modified.
C11_AppendOnly ==
    [][ log_last'.op \in LogOperations =>
            \A i \in DOMAIN logs : IsPrefix(logs[i].records, logs'[i].records) ]_vars

C11_Witness ==
    /\ log_last.op = "exclude_remaining" /\ log_last.outcome = ""
    /\ log_last.n_before > 0 /\ log_last.returned > 0
    /\ Len(Target) = log_last.n_before + log_last.returned

C13_RemainingAppendsUndecided ==
    (log_last.op \in BulkOperations /\ log_last.outcome = "") =>
        /\ Len(Appended) = Len(Undecided)
        /\ log_last.returned = Len(Appended)
        /\ \A n \in 1..Len(Appended) :
              /\ Appended[n].mdr_report_key = PyStr(Undecided[n].MDR_REPORT_KEY)
              /\ Appended[n].decision = log_last.decision
        /\ log_last.decision = (IF log_last.op = "include_remaining" THEN "include" ELSE "exclude")

\* include_remaining on a table with a key the log holds as excluded and a key it does not hold
C13_Witness ==
    /\ log_last.op = "include_remaining" /\ log_last.outcome = ""
    /\ log_last.returned = 1 /\ Len(log_last.table.rows) = 2
    /\ \E row \in Range(log_last.table.rows) :
          PyStr(row.MDR_REPORT_KEY) \in GetExclusionKeys(Before)
    /\ Appended[1].decision = "include"

\* C14: add detects no conflict: when add(k, 'exclude') follows an 'include'
\* record of k, the older record stays where it was, the new one comes after
\* it, and k is in get_inclusion_keys() and in get_exclusion_keys().
C14_HistoryNotMap ==
    [][ (log_last'.op = "add" /\ log_last'.outcome = "" /\ log_last'.decision = "exclude") =>
            LET old == logs[log_last'.inst].records
                new == logs'[log_last'.inst].records
            IN  \A m \in 1..Len(old) :
                    (old[m].decision = "include" /\ Len(new) > Len(old)
                        /\ new[Len(new)].mdr_report_key = old[m].mdr_report_key)
                    => /\ Len(new) > m /\ new[m] = old[m]
                       /\ new[Len(new)].decision = "exclude"
                       /\ old[m].mdr_report_key \in GetInclusionKeys(new)
                       /\ old[m].mdr_report_key \in GetExclusionKeys(new) ]_vars

C14_Witness ==
    /\ log_last.op = "add" /\ log_last.outcome = "" /\ log_last.decision = "exclude"
    /\ log_last.n_before = 1 /\ Len(Target) = 2
    /\ Target[1].mdr_report_key = "1" /\ Target[1].decision = "include"
    /\ Target[2].mdr_report_key = "1" /\ Target[2].decision = "exclude"
    /\ "1" \in GetInclusionKeys(Target) \cap GetExclusionKeys(Target)

\* the same report decided by the same reviewer at the same time
SameDecision(r, q) ==
    /\ r.mdr_report_key = q.mdr_report_key /\ r.decision = q.decision
    /\ r.reviewer = q.reviewer /\ r.date = q.date

C16_CsvRoundTrip ==
    (log_last.op = "from_csv" /\ log_last.outcome = "" /\ saved.by # "") =>
        /\ Len(Target) = Len(saved.records)
        /\ \A n \in 1..Len(saved.records) :
              /\ Target[n].mdr_report_key = saved.records[n].mdr_report_key
              /\ Target[n].decision = saved.records[n].decision
              /\ Target[n].reason = saved.records[n].reason
              /\ Target[n].reviewer = saved.records[n].reviewer
              /\ Target[n].strategy_version = saved.records[n].strategy_version
              /\ Target[n].device_info = saved.records[n].device_info
              /\ Target[n].search_group = saved.records[n].search_group

\* the date of data row n is missing or does not parse
BadDate(file, n) ==
    \/ ~HasColumn(file.header, "date")
    \/ IsShort(file.header, DataRows(file)[n], "date")
    \/ ~IsIso(DataRows(file)[n][ColumnIndex(file.header, "date")])

\* C17: a load never fails because optional data is missing: a file without
\* the search_group column loads with search_group = '' on every record, a
\* row whose date is missing or does not parse loads with the time of the
\* load, and the load yields one record per data row of the file.
C17_LoaderTolerant ==
    (log_last.op \in LoadOperations /\ csv_file.exists) =>
        /\ log_last.outcome = ""
        /\ Len(Target) = Len(DataRows(csv_file))
        /\ ~HasColumn(csv_file.header, "search_group") =>
              \A n \in 1..Len(Target) : Target[n].search_group = ""
        /\ \A n \in 1..Len(Target) : BadDate(csv_file, n) => Target[n].date = now

\* C18: every record of an object, constructed empty or from its file and
\* grown by add, include_remaining and exclude_remaining, has decision
\* 'include' or 'exclude', and get_statistics gives
\* total_decisions = inclusions + exclusions.
C18_DecisionsValid ==
    \A i \in DOMAIN logs :
        IsOpen(i) =>
            /\ \A n \in 1..Len(logs[i].records) : ValidDecision(logs[i].records[n].decision)
            /\ GetStatistics(logs[i].records).total_decisions =
                  GetStatistics(logs[i].records).inclusions
                      + GetStatistics(logs[i].records).exclusions

\* C19: two objects on one path do not coordinate: a to_csv raises nothing
\* and leaves in the file the records of the object that saved, and only
\* those; what the other object added, and saved before, is no longer there.
C19_LastWriterWins ==
    (log_last.op = "to_csv") =>
        /\ log_last.outcome = ""
        /\ saved.by = log_last.inst
        /\ csv_file.exists
        /\ csv_file.rows = [n \in 1..Len(Target) |-> WriteRow(Target[n])]

\* both objects added a record and saved; the file holds the one of the last to save
C19_Witness ==
    /\ log_last.op = "to_csv" /\ log_last.inst = "b"
    /\ saved.savers = {"a", "b"}
    /\ logs["a"].open /\ Len(logs["a"].records) = 1
    /\ Len(logs["b"].records) = 1
    /\ logs["a"].records[1].decision = "include"
    /\ logs["b"].records[1].decision = "exclude"
    /\ csv_file.rows = << WriteRow(logs["b"].records[1]) >>

----------------------------------------------------------------------------
(* The field-value decision cascade: SelectionManager.  A group holds, for *)
(* each phase, three lists of field values.  A field value is a device     *)
(* name of the store (a sequence of one-character strings).                *)

PHASES == << "brand_name", "generic_name", "manufacturer" >>

FIELD_MAP ==
    [brand_name |-> "BRAND_NAME", generic_name |-> "GENERIC_NAME",
     manufacturer |-> "MANUFACTURER_D_NAME"]

PhaseIndex(phase) == CHOOSE i \in 1..Len(PHASES) : PHASES[i] = phase

Buckets == {"accepted", "deferred", "rejected"}

BucketOf(decision) ==
    CASE decision = "accept" -> "accepted"
      [] decision = "defer" -> "deferred"
      [] decision = "reject" -> "rejected"

NoSnapshot == [mdr_keys |-> <<>>, event_count |-> 0, mdr_count |-> 0, pending_count |-> 0]

\* the state of a group after create_group
NewGroup(keywords) ==
    [keywords |-> keywords,
     decisions |-> [p \in Range(PHASES) |-> [b \in Buckets |-> <<>>]],
     current_phase |-> "brand_name",
     finalized |-> FALSE,
     snapshot |-> NoSnapshot]

\* create_group(name, keywords)
CreateGroup(gs, name, keywords) ==
    IF name \in DOMAIN gs \/ keywords = <<>>
    THEN [raised |-> "ValueError", groups |-> gs]
    ELSE [raised |-> "", groups |-> [n \in DOMAIN gs \cup {name} |->
                                        IF n = name THEN NewGroup(keywords) ELSE gs[n]]]

\* remove_group(name)
RemoveGroup(gs, name) == [n \in DOMAIN gs \ {name} |-> gs[n]]

\* rename_group(old_name, new_name)
RenameGroup(gs, old_name, new_name) ==
    IF old_name \notin DOMAIN gs THEN [raised |-> "KeyError", groups |-> gs]
    ELSE IF new_name \in DOMAIN gs \/ new_name = ""
    THEN [raised |-> "ValueError", groups |-> gs]
    ELSE [raised |-> "",
          groups |-> [n \in (DOMAIN gs \ {old_name}) \cup {new_name} |->
                         IF n = new_name THEN gs[old_name] ELSE gs[n]]]

Without(s, v) == SelectSeq(s, LAMBDA x : x # v)

\* set_decision(group, phase, value, decision): the value goes to the list of the
\* decision and leaves the other two
SetDecision(g, phase, value, decision) ==
    [g EXCEPT !.decisions[phase] =
        [b \in Buckets |->
            IF b = BucketOf(decision)
            THEN (IF value \in Range(@[b]) THEN @[b] ELSE Append(@[b], value))
            ELSE Without(@[b], value)]]

\* the decision recorded for a value, "" when there is none
RecordedDecision(g, phase, value) ==
    IF value \in Range(g.decisions[phase].accepted) THEN "accept"
    ELSE IF value \in Range(g.decisions[phase].deferred) THEN "defer"
    ELSE IF value \in Range(g.decisions[phase].rejected) THEN "reject"
    ELSE ""

MatchesKeywords(g, r) ==
    \E i \in 1..Len(g.keywords) : ContainsText(r.DEVICE_NAME_CONCAT, g.keywords[i])

\* the reports a phase looks at: they match the keywords and, after the first phase,
\* their values of the earlier phases are accepted
InScope(g, phase, r) ==
    /\ MatchesKeywords(g, r)
    /\ \A q \in 1..(PhaseIndex(phase) - 1) :
          r[FIELD_MAP[PHASES[q]]] \in Range(g.decisions[PHASES[q]].accepted)

\* the distinct elements of a sequence, in the order of their first occurrence
Distinct(s) ==
    LET F[i \in 0..Len(s)] ==
            IF i = 0 THEN <<>>
            ELSE IF s[i] \in Range(F[i-1]) THEN F[i-1] ELSE Append(F[i-1], s[i])
    IN  F[Len(s)]

\* search_candidates(db, group, phase): value, mdr_count and recorded decision
SearchCandidates(d, g, phase) ==
    LET rows == SelectSeq(d.rows, LAMBDA r : InScope(g, phase, r))
        values == Distinct([i \in 1..Len(rows) |-> rows[i][FIELD_MAP[phase]]])
    IN  [i \in 1..Len(values) |->
            [value |-> values[i],
             mdr_count |-> Cardinality({j \in 1..Len(rows) :
                                           rows[j][FIELD_MAP[phase]] = values[i]}),
             decision |-> RecordedDecision(g, phase, values[i])]]

\* advance_phase(group): the next phase, 'finalized' after the last one
AdvancePhase(g) ==
    IF g.current_phase = "finalized" THEN g
    ELSE IF PhaseIndex(g.current_phase) = Len(PHASES)
    THEN [g EXCEPT !.current_phase = "finalized"]
    ELSE [g EXCEPT !.current_phase = PHASES[PhaseIndex(g.current_phase) + 1]]

\* go_back_phase(group): the phase before; going back from 'finalized' un-finalizes
GoBackPhase(g) ==
    IF g.current_phase = "finalized"
    THEN [raised |-> "",
          group |-> [g EXCEPT !.current_phase = PHASES[Len(PHASES)], !.finalized = FALSE,
                              !.snapshot = NoSnapshot]]
    ELSE IF PhaseIndex(g.current_phase) = 1 THEN [raised |-> "ValueError", group |-> g]
    ELSE [raised |-> "",
          group |-> [g EXCEPT !.current_phase = PHASES[PhaseIndex(g.current_phase) - 1]]]

\* the number of components of a report that are deferred in their phase
DeferCount(g, r) ==
    Cardinality({q \in 1..Len(PHASES) :
                    r[FIELD_MAP[PHASES[q]]] \in Range(g.decisions[PHASES[q]].deferred)})

\* get_multi_deferred_mdrs(db, group, min_deferrals)
GetMultiDeferredMdrs(d, g, min_deferrals) ==
    SelectSeq(d.rows, LAMBDA r : MatchesKeywords(g, r) /\ DeferCount(g, r) >= min_deferrals)

\* the live match: every component accepted in its phase
LiveMatch(d, g) ==
    SelectSeq(d.rows,
              LAMBDA r : /\ MatchesKeywords(g, r)
                         /\ \A q \in 1..Len(PHASES) :
                               r[FIELD_MAP[PHASES[q]]] \in Range(g.decisions[PHASES[q]].accepted))

\* reports kept out only by deferrals: no component rejected, some component deferred
PendingMatch(d, g) ==
    SelectSeq(d.rows,
              LAMBDA r : /\ MatchesKeywords(g, r)
                         /\ \A q \in 1..Len(PHASES) :
                               r[FIELD_MAP[PHASES[q]]] \notin Range(g.decisions[PHASES[q]].rejected)
                         /\ DeferCount(g, r) > 0)

\* finalize_group(db, group)
FinalizeGroup(d, g) ==
    LET match == LiveMatch(d, g)
    IN  [g EXCEPT !.current_phase = "finalized",
                  !.finalized = TRUE,
                  !.snapshot = [mdr_keys |-> [i \in 1..Len(match) |-> match[i].MDR_REPORT_KEY],
                                event_count |-> Len(DeduplicateEvents(match)),
                                mdr_count |-> Len(match),
                                pending_count |-> Len(PendingMatch(d, g))]]

----------------------------------------------------------------------------
(* The SelectionWidget: screens and event handlers.  A screen is rebuilt   *)
(* on every navigation, so what a screen has loaded (candidates, toggles,  *)
(* multi-deferred rows and their decisions) starts empty on each visit.    *)

\* manager.save(): the whole state is written
Save(gs) == gs

\* _navigate_to(screen, group=None, phase=None) followed by _refresh()
NavigateTo(screen, group, phase) ==
    [NewWidget EXCEPT !.screen = screen, !.group = group, !.phase = phase]

Event(handler, group, phase, decision, outcome) ==
    [handler |-> handler, group |-> group, phase |-> phase,
     decision |-> decision, outcome |-> outcome]

\* str.split(','): the pieces between the commas
RECURSIVE SplitCommas(_, _)
SplitCommas(text, piece) ==
    IF text = <<>> THEN << piece >>
    ELSE IF Head(text) = "," THEN << piece >> \o SplitCommas(Tail(text), <<>>)
    ELSE SplitCommas(Tail(text), Append(piece, Head(text)))

\* str.strip(): leading and trailing blanks go
RECURSIVE Strip(_)
Strip(text) ==
    IF text = <<>> THEN <<>>
    ELSE IF Head(text) = " " THEN Strip(Tail(text))
    ELSE IF text[Len(text)] = " " THEN Strip(SubSeq(text, 1, Len(text) - 1))
    ELSE text

\* [kw.strip() for kw in keywords_text.split(',') if kw.strip()]
ParseKeywords(keywords_text) ==
    LET pieces == SplitCommas(keywords_text, <<>>)
        stripped == [i \in 1..Len(pieces) |-> Strip(pieces[i])]
    IN  SelectSeq(stripped, LAMBDA kw : kw # <<>>)

\* str.capitalize() and str.lower() on the three toggle options
Capitalize(decision) ==
    CASE decision = "accept" -> "Accept"
      [] decision = "defer" -> "Defer"
      [] decision = "reject" -> "Reject"

LowerOption(option) ==
    CASE option = "Accept" -> "accept"
      [] option = "Defer" -> "defer"
      [] option = "Reject" -> "reject"

ToggleOptions == {"Accept", "Defer", "Reject"}

\* a variant that defers every listed value, decided or not
DeferAlways(g, field, row) == SetDecision(g, field, row.value, "defer")

\* _build_selection_content, one candidate: without a recorded decision it is deferred
\* in the manager, with one it is left alone
DeferIfUndecided(g, field, row) ==
    IF row.decision \in {"accept", "reject", "defer"} THEN g
    ELSE SetDecision(g, field, row.value, "defer")

\* _build_selection_content, the loop over the candidates
RECURSIVE DefaultDefer(_, _, _)
DefaultDefer(g, field, candidates) ==
    IF candidates = <<>> THEN g
    ELSE DefaultDefer(DeferIfUndecided(g, field, Head(candidates)), field, Tail(candidates))

\* _candidates_data: value, count and the initial decision of each candidate
CandidatesData(candidates) ==
    [i \in 1..Len(candidates) |->
        [value |-> candidates[i].value,
         count |-> candidates[i].mdr_count,
         decision |-> IF candidates[i].decision \in {"accept", "reject", "defer"}
                      THEN candidates[i].decision ELSE "defer"]]

\* accept_all / defer_all / reject_all: every toggle of the page takes the option; a
\* toggle whose value changes runs on_change (set_decision), the others do nothing
RECURSIVE SetAllToggles(_, _, _, _, _)
SetAllToggles(g, field, data, toggles, option) ==
    IF data = <<>> THEN g
    ELSE LET next == IF Head(toggles) = option THEN g
                     ELSE SetDecision(g, field, Head(data).value, LowerOption(option))
         IN  SetAllToggles(next, field, Tail(data), Tail(toggles), option)

\* the characters of the model in code point order
CodePoints ==
    << " ", ",", "A", "C", "J", "T", "U", "X",
       "a", "b", "c", "g", "j", "k", "m", "n", "o", "t", "u", "x", "y", "z" >>

Ord(c) == CHOOSE i \in 1..Len(CodePoints) : CodePoints[i] = c

\* s < t on str
TextLess(s, t) ==
    \E k \in 1..(Len(s) + 1) :
        /\ \A i \in 1..(k - 1) : i <= Len(t) /\ s[i] = t[i]
        /\ \/ k = Len(s) + 1 /\ Len(t) >= k
           \/ k <= Len(s) /\ k <= Len(t) /\ Ord(s[k]) < Ord(t[k])

\* the key of a multi-deferred row: (brand, generic, manufacturer)
TripleOf(r) == << r.BRAND_NAME, r.GENERIC_NAME, r.MANUFACTURER_D_NAME >>

\* groupby sorts by the key columns, left to right
TripleLess(a, b) ==
    \E k \in 1..3 : (\A i \in 1..(k - 1) : a[i] = b[i]) /\ TextLess(a[k], b[k])

\* sort_values(['defer_count', 'mdr_count'], ascending=[False, False]) on the grouped
\* frame: ties keep the order of groupby
ComesBefore(a, b) ==
    \/ a.defer_count > b.defer_count
    \/ a.defer_count = b.defer_count /\ a.mdr_count > b.mdr_count
    \/ a.defer_count = b.defer_count /\ a.mdr_count = b.mdr_count /\ TripleLess(a.key, b.key)

\* _md_data: one item for each distinct triple of the multi-deferred reports
MdData(g, multi) ==
    LET triples == {TripleOf(multi[i]) : i \in 1..Len(multi)}
        item(t) == [key |-> t,
                    mdr_count |-> Cardinality({i \in 1..Len(multi) : TripleOf(multi[i]) = t}),
                    defer_count |-> DeferCount(g, multi[CHOOSE i \in 1..Len(multi) :
                                                              TripleOf(multi[i]) = t])]
        items == {item(t) : t \in triples}
    IN  [i \in 1..Cardinality(items) |->
            CHOOSE a \in items : Cardinality({b \in items : ComesBefore(b, a)}) = i - 1]

\* _md_decisions.get(key, 'defer'); the dict is a list of items in insertion order
MdGet(md_decisions, key) ==
    IF \E i \in 1..Len(md_decisions) : md_decisions[i].key = key
    THEN md_decisions[CHOOSE i \in 1..Len(md_decisions) : md_decisions[i].key = key].decision
    ELSE "defer"

\* _md_decisions[key] = decision: a known key keeps its place, a new key goes last
MdSet(md_decisions, key, decision) ==
    IF \E i \in 1..Len(md_decisions) : md_decisions[i].key = key
    THEN [i \in 1..Len(md_decisions) |->
             IF md_decisions[i].key = key THEN [md_decisions[i] EXCEPT !.decision = decision]
             ELSE md_decisions[i]]
    ELSE Append(md_decisions, [key |-> key, decision |-> decision])

\* accept_all_visible / reject_all_visible: every item of the page, in the order of _md_data
RECURSIVE MdSetAll(_, _, _)
MdSetAll(md_decisions, md_data, decision) ==
    IF md_data = <<>> THEN md_decisions
    ELSE MdSetAll(MdSet(md_decisions, Head(md_data).key, decision), Tail(md_data), decision)

\* a variant that appends the value to the new list and leaves it in 'deferred'
MoveDeferredKeeps(g, phase, value, bucket) ==
    IF value # <<>> /\ value \in Range(g.decisions[phase].deferred)
    THEN [g EXCEPT !.decisions[phase][bucket] = Append(@, value)]
    ELSE g

\* save_and_continue, one component of a triple: if the value is non-empty and in
\* 'deferred', deferred.remove(value) and then accepted/rejected.append(value)
MoveDeferred(g, phase, value, bucket) ==
    IF value # <<>> /\ value \in Range(g.decisions[phase].deferred)
    THEN [g EXCEPT !.decisions[phase] =
             [@ EXCEPT !.deferred = RemoveFirst(@, value), ![bucket] = Append(@, value)]]
    ELSE g

\* a variant that gives every component of a resolved triple the decision of the triple,
\* deferred or not
ResolveTripleForces(g, key, decision) ==
    IF decision \in {"accept", "reject"}
    THEN LET g1 == SetDecision(g, "brand_name", key[1], decision)
             g2 == SetDecision(g1, "generic_name", key[2], decision)
         IN  SetDecision(g2, "manufacturer", key[3], decision)
    ELSE g

\* save_and_continue, one item of _md_decisions
ResolveTriple(g, key, decision) ==
    IF decision \in {"accept", "reject"}
    THEN LET bucket == BucketOf(decision)
             g1 == MoveDeferred(g, "brand_name", key[1], bucket)
             g2 == MoveDeferred(g1, "generic_name", key[2], bucket)
         IN  MoveDeferred(g2, "manufacturer", key[3], bucket)
    ELSE g

\* a variant that goes through _md_decisions from the last item to the first
SaveAndContinueBackwards(g, md_decisions) ==
    LET n == Len(md_decisions)
        F[i \in 0..n] ==
            IF i = 0 THEN g
            ELSE ResolveTriple(F[i-1], md_decisions[n + 1 - i].key,
                               md_decisions[n + 1 - i].decision)
    IN  F[n]

\* save_and_continue: the loop over _md_decisions.items()
RECURSIVE SaveAndContinue(_, _)
SaveAndContinue(g, md_decisions) ==
    IF md_decisions = <<>> THEN g
    ELSE SaveAndContinue(ResolveTriple(g, Head(md_decisions).key, Head(md_decisions).decision),
                         Tail(md_decisions))

\* the deferred values of the group, as <<phase index, value>>, that one item of
\* _md_decisions accepts and another rejects
SharedDeferred(g, md_decisions) ==
    {qv \in UNION {{<<q, v>> : v \in Range(g.decisions[PHASES[q]].deferred)} :
                      q \in 1..Len(PHASES)} :
        \E i \in DOMAIN md_decisions, j \in DOMAIN md_decisions :
            /\ md_decisions[i].key[qv[1]] = qv[2] /\ md_decisions[i].decision = "accept"
            /\ md_decisions[j].key[qv[1]] = qv[2] /\ md_decisions[j].decision = "reject"}

\* the first item of _md_decisions that resolves a deferred value on which the items
\* disagree: its decision and the first phase of such a value; "" when they disagree on none
FirstOnShared(g, md_decisions) ==
    LET shared == SharedDeferred(g, md_decisions)
        resolves(i, qv) == /\ md_decisions[i].decision \in {"accept", "reject"}
                           /\ md_decisions[i].key[qv[1]] = qv[2]
        items == {i \in DOMAIN md_decisions : \E qv \in shared : resolves(i, qv)}
        first == CHOOSE i \in items : \A j \in items : i <= j
        phases == {qv[1] : qv \in {sv \in shared : resolves(first, sv)}}
    IN  IF shared = {} THEN [phase |-> "", decision |-> ""]
        ELSE [phase |-> PHASES[CHOOSE q \in phases : \A r \in phases : q <= r],
              decision |-> md_decisions[first].decision]

----------------------------------------------------------------------------
(* Inputs of the cascade *)

\* three reports of one manufacturer: two share the generic name, two the brand
CascadeStore ==
    [is_maude_database |-> TRUE,
     columns |-> AllColumns,
     rows |-> << Report(StrKey("1"), 1, <<"a">>, <<"x">>, <<"m">>),
                 Report(StrKey("2"), 2, <<"b">>, <<"x">>, <<"m">>),
                 Report(StrKey("3"), 3, <<"b">>, <<"y">>, <<"m">>) >>]

\* what the keywords box holds: nothing, a keyword that matches every report, a keyword
\* that matches none, separators only
KeywordTexts == { <<>>, <<"m">>, <<"z">>, <<",", " ">> }

\* what the group name box holds
GroupNameTexts == {"", "g1"}

----------------------------------------------------------------------------
(* Specification of the cascade: the events of one SelectionWidget on one  *)
(* SelectionManager                                                        *)

NotCascade == <<strategy, db, result, now, last, recent, records, yaml_file, loaded, logvars, helpervars>>

OnScreen(screen) == widget.screen = screen

\* the group shown by the current screen
Shown == groups[widget.group]

\* main screen, "Add Group"
on_add_click ==
    /\ OnScreen("main")
    /\ widget' = NavigateTo("add_group", "", "")
    /\ ui_last' = Event("on_add_click", "", "", "", "navigated")
    /\ UNCHANGED <<groups, selections_file, NotCascade>>

\* a variant that shows the last phase of a finalized group without going back
on_edit_group_as_is ==
    /\ OnScreen("main")
    /\ \E group_name \in DOMAIN groups :
          LET g == groups[group_name]
              phase == IF g.current_phase = "finalized" THEN PHASES[Len(PHASES)]
                       ELSE g.current_phase
          IN  /\ groups' = groups
              /\ widget' = NavigateTo("selection", group_name, phase)
              /\ ui_last' = Event("on_edit_group", group_name, phase, "", "navigated")
    /\ UNCHANGED <<selections_file, NotCascade>>

\* main screen, the card of a group, "Edit"
on_edit_group ==
    /\ OnScreen("main")
    /\ \E group_name \in DOMAIN groups :
          LET back == GoBackPhase(groups[group_name])
              g == IF groups[group_name].current_phase = "finalized"
                   THEN back.group ELSE groups[group_name]
          IN  /\ groups' = [groups EXCEPT ![group_name] = g]
              /\ widget' = NavigateTo("selection", group_name, g.current_phase)
              /\ ui_last' = Event("on_edit_group", group_name, g.current_phase, "", "navigated")
    /\ UNCHANGED <<selections_file, NotCascade>>

\* main screen, the card of a group, "Rename"
on_rename_click ==
    /\ OnScreen("main")
    /\ \E group_name \in DOMAIN groups :
          /\ widget' = NavigateTo("rename", group_name, "")
          /\ ui_last' = Event("on_rename_click", group_name, "", "", "navigated")
    /\ UNCHANGED <<groups, selections_file, NotCascade>>

\* main screen, the card of a group, "Delete"
on_delete_group ==
    /\ OnScreen("main")
    /\ \E group_name \in DOMAIN groups :
          /\ groups' = RemoveGroup(groups, group_name)
          /\ selections_file' = Save(groups')
          /\ widget' = NavigateTo("main", "", "")
          /\ ui_last' = Event("on_delete_group", group_name, "", "", "saved")
    /\ UNCHANGED NotCascade

\* main screen, "Save"
on_save_click ==
    /\ OnScreen("main")
    /\ selections_file' = Save(groups)
    /\ ui_last' = Event("on_save_click", "", "", "", "saved")
    /\ UNCHANGED <<groups, widget, NotCascade>>

\* a variant that replaces a group of the same name instead of reporting the error
on_proceed_click_replaces ==
    /\ OnScreen("add_group")
    /\ \E keywords_text \in KeywordTexts, group_name \in GroupNameTexts :
          LET keywords == ParseKeywords(keywords_text)
          IN  IF Strip(keywords_text) = <<>> \/ group_name = ""
              THEN /\ ui_last' = Event("on_proceed_click", group_name, "", "", "asked")
                   /\ UNCHANGED <<groups, widget, selections_file>>
              ELSE IF keywords = <<>>
              THEN /\ ui_last' = Event("on_proceed_click", group_name, "", "", "ValueError")
                   /\ UNCHANGED <<groups, widget, selections_file>>
              ELSE /\ groups' = [n \in DOMAIN groups \cup {group_name} |->
                                    IF n = group_name THEN NewGroup(keywords) ELSE groups[n]]
                   /\ selections_file' = Save(groups')
                   /\ widget' = NavigateTo("selection", group_name, "brand_name")
                   /\ ui_last' = Event("on_proceed_click", group_name, "brand_name", "", "saved")
    /\ UNCHANGED NotCascade

\* add-group screen, "Proceed to Selection"
on_proceed_click ==
    /\ OnScreen("add_group")
    /\ \E keywords_text \in KeywordTexts, group_name \in GroupNameTexts :
          LET made == CreateGroup(groups, group_name, ParseKeywords(keywords_text))
          IN  IF Strip(keywords_text) = <<>> \/ group_name = ""
              THEN /\ ui_last' = Event("on_proceed_click", group_name, "", "", "asked")
                   /\ UNCHANGED <<groups, widget, selections_file>>
              ELSE IF made.raised = "ValueError"
              THEN /\ ui_last' = Event("on_proceed_click", group_name, "", "", "ValueError")
                   /\ UNCHANGED <<groups, widget, selections_file>>
              ELSE /\ groups' = made.groups
                   /\ selections_file' = Save(groups')
                   /\ widget' = NavigateTo("selection", group_name, "brand_name")
                   /\ ui_last' = Event("on_proceed_click", group_name, "brand_name", "", "saved")
    /\ UNCHANGED NotCascade

\* a variant that lets the new group take the place of a group of the same name
CreateIfValidReplaces(gs, keywords_text, group_name) ==
    LET keywords == ParseKeywords(keywords_text)
    IN  IF Strip(keywords_text) # <<>> /\ group_name # "" /\ keywords # <<>>
        THEN [n \in DOMAIN gs \cup {group_name} |->
                 IF n = group_name THEN NewGroup(keywords) ELSE gs[n]]
        ELSE gs

\* the groups after the first half of _on_home_from_add_group: create_group is called
\* when text, name and parsed keywords are all non-empty, and its ValueError is passed
CreateIfValid(gs, keywords_text, group_name) ==
    LET keywords == ParseKeywords(keywords_text)
        made == CreateGroup(gs, group_name, keywords)
        tried == Strip(keywords_text) # <<>> /\ group_name # "" /\ keywords # <<>>
    IN  IF tried /\ made.raised = "" THEN made.groups ELSE gs

\* add-group screen, "Home"
on_home_from_add_group ==
    /\ OnScreen("add_group")
    /\ \E keywords_text \in KeywordTexts, group_name \in GroupNameTexts :
          LET keywords == ParseKeywords(keywords_text)
              made == CreateGroup(groups, group_name, keywords)
              tried == Strip(keywords_text) # <<>> /\ group_name # "" /\ keywords # <<>>
          IN  /\ groups' = CreateIfValid(groups, keywords_text, group_name)
              /\ selections_file' = Save(groups')
              /\ widget' = NavigateTo("main", "", "")
              /\ ui_last' = Event("on_home_from_add_group", group_name, "", "",
                                  IF tried THEN (IF made.raised = "" THEN "created" ELSE "swallowed")
                                  ELSE "saved")
    /\ UNCHANGED NotCascade

\* selection screen, "Load Candidates": the candidates are searched, the ones without
\* a decision are deferred, and the state is saved
load_content ==
    /\ OnScreen("selection")
    /\ widget.content = ""
    /\ LET candidates == SearchCandidates(db, Shown, widget.phase)
       IN  IF candidates = <<>>
           THEN /\ widget' = [widget EXCEPT !.content = "empty"]
                /\ ui_last' = Event("load_content", widget.group, widget.phase, "", "empty")
                /\ UNCHANGED <<groups, selections_file>>
           ELSE /\ groups' = [groups EXCEPT ![widget.group] =
                                 DefaultDefer(@, widget.phase, candidates)]
                /\ selections_file' = Save(groups')
                /\ widget' = [widget EXCEPT
                                 !.content = "loaded",
                                 !.candidates_data = CandidatesData(candidates),
                                 !.decision_widgets =
                                     [i \in 1..Len(candidates) |->
                                         Capitalize(CandidatesData(candidates)[i].decision)]]
                /\ ui_last' = Event("load_content", widget.group, widget.phase, "", "saved")
    /\ UNCHANGED NotCascade

\* selection screen, a toggle takes another option
on_change ==
    /\ OnScreen("selection")
    /\ widget.content = "loaded"
    /\ \E i \in 1..Len(widget.candidates_data), option \in ToggleOptions :
          /\ option # widget.decision_widgets[i]
          /\ groups' = [groups EXCEPT ![widget.group] =
                           SetDecision(@, widget.phase, widget.candidates_data[i].value,
                                       LowerOption(option))]
          /\ selections_file' = Save(groups')
          /\ widget' = [widget EXCEPT !.decision_widgets[i] = option]
          /\ ui_last' = Event("on_change", widget.group, widget.phase, LowerOption(option), "saved")
    /\ UNCHANGED NotCascade

\* the three bulk buttons of the selection screen
SetAllVisible(handler, option) ==
    /\ widget.content = "loaded"
    /\ groups' = [groups EXCEPT ![widget.group] =
                     SetAllToggles(@, widget.phase, widget.candidates_data,
                                   widget.decision_widgets, option)]
    /\ selections_file' = IF \E i \in 1..Len(widget.decision_widgets) :
                                 widget.decision_widgets[i] # option
                          THEN Save(groups') ELSE selections_file
    /\ widget' = [widget EXCEPT !.decision_widgets =
                     [i \in 1..Len(widget.decision_widgets) |-> option]]
    /\ ui_last' = Event(handler, widget.group, widget.phase, LowerOption(option), "set")
    /\ UNCHANGED NotCascade

\* selection screen, "Accept All Visible"
accept_all ==
    /\ OnScreen("selection")
    /\ SetAllVisible("accept_all", "Accept")

\* selection screen, "Defer All Visible"
defer_all ==
    /\ OnScreen("selection")
    /\ SetAllVisible("defer_all", "Defer")

\* selection screen, "Reject All Visible"
reject_all ==
    /\ OnScreen("selection")
    /\ SetAllVisible("reject_all", "Reject")

\* a variant that asks the manager to advance twice
advance_phase_twice ==
    LET g == AdvancePhase(AdvancePhase(Shown))
    IN  /\ groups' = [groups EXCEPT ![widget.group] = g]
        /\ selections_file' = Save(groups')
        /\ widget' = IF g.current_phase = "finalized"
                     THEN NavigateTo("summary", widget.group, "")
                     ELSE NavigateTo("selection", widget.group, g.current_phase)
        /\ ui_last' = Event("_advance_phase", widget.group, g.current_phase, "", "saved")

\* _advance_phase(group_name)
advance_phase ==
    LET g == AdvancePhase(Shown)
    IN  /\ groups' = [groups EXCEPT ![widget.group] = g]
        /\ selections_file' = Save(groups')
        /\ widget' = IF g.current_phase = "finalized"
                     THEN NavigateTo("summary", widget.group, "")
                     ELSE NavigateTo("selection", widget.group, g.current_phase)
        /\ ui_last' = Event("_advance_phase", widget.group, g.current_phase, "", "saved")

\* a variant that stays on the selection screen when the manager refuses
go_back_phase_stays ==
    LET back == GoBackPhase(Shown)
    IN  IF back.raised = "ValueError"
        THEN /\ widget' = NavigateTo("selection", widget.group, Shown.current_phase)
             /\ ui_last' = Event("_go_back_phase", widget.group, "", "", "ValueError")
             /\ UNCHANGED <<groups, selections_file>>
        ELSE /\ groups' = [groups EXCEPT ![widget.group] = back.group]
             /\ selections_file' = Save(groups')
             /\ widget' = NavigateTo("selection", widget.group, back.group.current_phase)
             /\ ui_last' = Event("_go_back_phase", widget.group, back.group.current_phase,
                                 "", "saved")

\* _go_back_phase(group_name)
go_back_phase ==
    LET back == GoBackPhase(Shown)
    IN  IF back.raised = "ValueError"
        THEN /\ widget' = NavigateTo("main", "", "")
             /\ ui_last' = Event("_go_back_phase", widget.group, "", "", "ValueError")
             /\ UNCHANGED <<groups, selections_file>>
        ELSE /\ groups' = [groups EXCEPT ![widget.group] = back.group]
             /\ selections_file' = Save(groups')
             /\ widget' = NavigateTo("selection", widget.group, back.group.current_phase)
             /\ ui_last' = Event("_go_back_phase", widget.group, back.group.current_phase,
                                 "", "saved")

\* selection screen, "Back": to the main screen from the first phase, else a phase back;
\* the screen without candidates always goes a phase back
on_back_click ==
    /\ OnScreen("selection")
    /\ IF widget.content # "empty" /\ PhaseIndex(widget.phase) = 1
       THEN /\ widget' = NavigateTo("main", "", "")
            /\ ui_last' = Event("on_back_click", widget.group, "", "", "navigated")
            /\ UNCHANGED <<groups, selections_file>>
       ELSE go_back_phase
    /\ UNCHANGED NotCascade

\* selection screen, "Next Phase" ("Review Deferred" in the last phase); the screen without
\* candidates always advances
on_next_click ==
    /\ OnScreen("selection")
    /\ widget.content \in {"loaded", "empty"}
    /\ IF widget.content = "loaded" /\ PhaseIndex(widget.phase) = Len(PHASES)
       THEN /\ widget' = NavigateTo("multi_deferred", widget.group, "")
            /\ ui_last' = Event("on_next_click", widget.group, "", "", "navigated")
            /\ UNCHANGED <<groups, selections_file>>
       ELSE advance_phase
    /\ UNCHANGED NotCascade

\* multi-deferred screen, "Load MDRs"
md_load_content ==
    /\ OnScreen("multi_deferred")
    /\ widget.content = ""
    /\ LET multi == GetMultiDeferredMdrs(db, Shown, 2)
       IN  IF multi = <<>>
           THEN /\ widget' = [widget EXCEPT !.content = "empty"]
                /\ ui_last' = Event("md_load_content", widget.group, "", "", "empty")
           ELSE /\ widget' = [widget EXCEPT !.content = "loaded",
                                            !.md_data = MdData(Shown, multi),
                                            !.md_decisions = <<>>]
                /\ ui_last' = Event("md_load_content", widget.group, "", "", "loaded")
    /\ UNCHANGED <<groups, selections_file, NotCascade>>

\* multi-deferred screen, the toggle of a triple takes another option
md_on_change ==
    /\ OnScreen("multi_deferred")
    /\ widget.content = "loaded"
    /\ \E i \in 1..Len(widget.md_data), option \in ToggleOptions :
          /\ option # Capitalize(MdGet(widget.md_decisions, widget.md_data[i].key))
          /\ widget' = [widget EXCEPT !.md_decisions =
                           MdSet(@, widget.md_data[i].key, LowerOption(option))]
          /\ ui_last' = Event("md_on_change", widget.group, "", LowerOption(option), "set")
    /\ UNCHANGED <<groups, selections_file, NotCascade>>

\* multi-deferred screen, "Accept All Visible"
accept_all_visible ==
    /\ OnScreen("multi_deferred")
    /\ widget.content = "loaded"
    /\ widget' = [widget EXCEPT !.md_decisions = MdSetAll(@, widget.md_data, "accept")]
    /\ ui_last' = Event("accept_all_visible", widget.group, "", "accept", "set")
    /\ UNCHANGED <<groups, selections_file, NotCascade>>

\* multi-deferred screen, "Reject All Visible"
reject_all_visible ==
    /\ OnScreen("multi_deferred")
    /\ widget.content = "loaded"
    /\ widget' = [widget EXCEPT !.md_decisions = MdSetAll(@, widget.md_data, "reject")]
    /\ ui_last' = Event("reject_all_visible", widget.group, "", "reject", "set")
    /\ UNCHANGED <<groups, selections_file, NotCascade>>

\* multi-deferred screen, "Back": the selection screen of the last phase
md_back_click ==
    /\ OnScreen("multi_deferred")
    /\ widget' = NavigateTo("selection", widget.group, PHASES[Len(PHASES)])
    /\ ui_last' = Event("md_back_click", widget.group, PHASES[Len(PHASES)], "", "navigated")
    /\ UNCHANGED <<groups, selections_file, NotCascade>>

\* multi-deferred screen without rows, "View Summary"
view_summary ==
    /\ OnScreen("multi_deferred")
    /\ widget.content = "empty"
    /\ widget' = NavigateTo("summary", widget.group, "")
    /\ ui_last' = Event("view_summary", widget.group, "", "", "navigated")
    /\ UNCHANGED <<groups, selections_file, NotCascade>>

\* multi-deferred screen, "Save & View Summary"; the event notes what the first item said
\* that resolved a value another item resolved the other way
save_and_continue ==
    /\ OnScreen("multi_deferred")
    /\ widget.content = "loaded"
    /\ groups' = [groups EXCEPT ![widget.group] = SaveAndContinue(@, widget.md_decisions)]
    /\ selections_file' = Save(groups')
    /\ widget' = NavigateTo("summary", widget.group, "")
    /\ LET first == FirstOnShared(groups[widget.group], widget.md_decisions)
       IN  ui_last' = Event("save_and_continue", widget.group, first.phase, first.decision,
                            "saved")
    /\ UNCHANGED NotCascade

\* summary screen, "Back"
summary_back_click ==
    /\ OnScreen("summary")
    /\ widget' = NavigateTo("multi_deferred", widget.group, "")
    /\ ui_last' = Event("summary_back_click", widget.group, "", "", "navigated")
    /\ UNCHANGED <<groups, selections_file, NotCascade>>

\* a variant that marks the group finalized without asking the manager for the match
on_finish_no_capture ==
    /\ OnScreen("summary")
    /\ groups' = [groups EXCEPT ![widget.group] =
                     [@ EXCEPT !.current_phase = "finalized", !.finalized = TRUE]]
    /\ selections_file' = Save(groups')
    /\ widget' = NavigateTo("main", "", "")
    /\ ui_last' = Event("_on_finish", widget.group, "finalized", "", "saved")
    /\ UNCHANGED NotCascade

\* summary screen, "Finish & Save"
on_finish ==
    /\ OnScreen("summary")
    /\ groups' = [groups EXCEPT ![widget.group] = FinalizeGroup(db, @)]
    /\ selections_file' = Save(groups')
    /\ widget' = NavigateTo("main", "", "")
    /\ ui_last' = Event("_on_finish", widget.group, "finalized", "", "saved")
    /\ UNCHANGED NotCascade

\* rename screen, "Cancel"
on_rename_cancel ==
    /\ OnScreen("rename")
    /\ widget' = NavigateTo("main", "", "")
    /\ ui_last' = Event("on_rename_cancel", widget.group, "", "", "navigated")
    /\ UNCHANGED <<groups, selections_file, NotCascade>>

\* rename screen, "Save"
on_rename_save ==
    /\ OnScreen("rename")
    /\ \E new_name \in GroupNameTexts \ {""} :
          LET renamed == RenameGroup(groups, widget.group, new_name)
          IN  IF renamed.raised # ""
              THEN /\ ui_last' = Event("_on_rename_save", widget.group, "", "", renamed.raised)
                   /\ UNCHANGED <<groups, widget, selections_file>>
              ELSE /\ groups' = renamed.groups
                   /\ selections_file' = Save(groups')
                   /\ widget' = NavigateTo("main", "", "")
                   /\ ui_last' = Event("_on_rename_save", widget.group, "", "", "saved")
    /\ UNCHANGED NotCascade

InitCascade ==
    /\ strategy = DeviceSearchStrategy("s", "d", <<>>, <<>>, <<>>, <<>>, <<>>, "", 0)
    /\ db = CascadeStore
    /\ result = NoResult
    /\ Idle

NextCascade ==
    \/ on_add_click
    \/ on_edit_group
    \/ on_rename_click
    \/ on_delete_group
    \/ on_save_click
    \/ on_proceed_click
    \/ on_home_from_add_group
    \/ load_content
    \/ on_change
    \/ accept_all
    \/ defer_all
    \/ reject_all
    \/ on_back_click
    \/ on_next_click
    \/ md_load_content
    \/ md_on_change
    \/ accept_all_visible
    \/ reject_all_visible
    \/ md_back_click
    \/ view_summary
    \/ save_and_continue
    \/ summary_back_click
    \/ on_finish
    \/ on_rename_cancel
    \/ on_rename_save

SpecCascade == InitCascade /\ [][NextCascade]_vars

----------------------------------------------------------------------------
(* Claims about the cascade *)

\* the values of a bucket of a phase of a group
Bucket(g, phase, b) == Range(g.decisions[phase][b])

\* C20: whatever events the widget has handled (listing with default defer, toggles,
\* multi-deferred resolution, phase advance and back, finalize), for every group and
\* every phase no field value is in two of the lists accepted, deferred and rejected.
C20_BucketsDisjoint ==
    \A n \in DOMAIN groups : \A q \in 1..Len(PHASES) :
        \A b1 \in Buckets : \A b2 \in Buckets \ {b1} :
            Bucket(groups[n], PHASES[q], b1) \cap Bucket(groups[n], PHASES[q], b2) = {}

\* a multi-deferred resolution has just moved values: the group holds an accepted and a
\* rejected value that listing had deferred, and nothing of the triple is left deferred
C20_Witness ==
    /\ ui_last.handler = "save_and_continue"
    /\ \E n \in DOMAIN groups :
          /\ <<"a">> \in Bucket(groups[n], "brand_name", "accepted")
          /\ <<"b">> \in Bucket(groups[n], "brand_name", "rejected")
          /\ <<"x">> \in Bucket(groups[n], "generic_name", "rejected")
          /\ Bucket(groups[n], "generic_name", "deferred") = {}

\* the order of the phases of a group
PhaseOrder == PHASES \o << "finalized" >>

PhaseRank(phase) == CHOOSE i \in 1..Len(PhaseOrder) : PhaseOrder[i] = phase

\* the groups that a step keeps (under their name)
Kept == DOMAIN groups \cap DOMAIN groups'

\* C21: a group's current_phase is always one of brand_name, generic_name, manufacturer,
\* finalized; a step of _advance_phase moves it to the next phase of that order (it stays
\* at finalized), a step of _go_back_phase that does not fail moves it to the phase
\* before, and no step of any handler moves it by more than one phase.
C21_PhaseStep ==
    /\ \A n \in DOMAIN groups' : groups'[n].current_phase \in Range(PhaseOrder)
    /\ \A n \in Kept :
          LET old == PhaseRank(groups[n].current_phase)
              new == PhaseRank(groups'[n].current_phase)
          IN  /\ new \in {old - 1, old, old + 1}
              /\ ui_last'.handler = "_advance_phase" /\ n = ui_last'.group
                    => new = (IF old = Len(PhaseOrder) THEN old ELSE old + 1)
              /\ ui_last'.handler = "_go_back_phase" /\ n = ui_last'.group
                    => new = (IF ui_last'.outcome = "ValueError" THEN old ELSE old - 1)

C21_PhaseStateMachine == [][C21_PhaseStep]_vars

\* the group went forward twice and has just gone one phase back
C21_Witness ==
    /\ ui_last.handler = "_go_back_phase"
    /\ ui_last.outcome = "saved"
    /\ ui_last.group \in DOMAIN groups
    /\ groups[ui_last.group].current_phase = "generic_name"
    /\ widget.phase = "generic_name"

\* C22: a step of _go_back_phase on a group that is at brand_name fails with ValueError;
\* the groups (current_phase, decisions, finalized flag) and the saved file stay as they
\* were, and the widget shows the main screen.
C22_BackAtFirstStep ==
    (/\ ui_last'.handler = "_go_back_phase"
     /\ widget.group \in DOMAIN groups
     /\ Shown.current_phase = "brand_name")
    => /\ ui_last'.outcome = "ValueError"
       /\ groups' = groups
       /\ selections_file' = selections_file
       /\ widget' = NavigateTo("main", "", "")

C22_BackAtFirstPhaseFails == [][C22_BackAtFirstStep]_vars

\* "Back" on a first phase without candidates has just failed
C22_Witness ==
    /\ ui_last.handler = "_go_back_phase"
    /\ ui_last.outcome = "ValueError"
    /\ ui_last.group \in DOMAIN groups
    /\ groups[ui_last.group].current_phase = "brand_name"
    /\ ~groups[ui_last.group].finalized
    /\ widget.screen = "main"

\* a finalized group put back at the last active phase
Unfinalized(g) == [g EXCEPT !.current_phase = PHASES[Len(PHASES)], !.finalized = FALSE]

SameButSnapshot(g, h) == [g EXCEPT !.snapshot = NoSnapshot] = [h EXCEPT !.snapshot = NoSnapshot]

\* C23: a step changes a finalized group only by going back a phase (the Edit button or
\* _go_back_phase), which un-finalizes it and puts it at manufacturer with its decisions
\* unchanged; the Edit button on a finalized group does this and shows the selection
\* screen of manufacturer.
C23_FinalizedStep ==
    /\ \A n \in Kept :
          groups[n].finalized =>
             \/ groups'[n] = groups[n]
             \/ /\ ui_last'.handler \in {"on_edit_group", "_go_back_phase"}
                /\ ui_last'.group = n
                /\ SameButSnapshot(groups'[n], Unfinalized(groups[n]))
    /\ \A n \in DOMAIN groups :
          (ui_last'.handler = "on_edit_group" /\ ui_last'.group = n /\ groups[n].finalized)
          => /\ n \in DOMAIN groups'
             /\ SameButSnapshot(groups'[n], Unfinalized(groups[n]))
             /\ widget' = NavigateTo("selection", n, "manufacturer")

C23_FinalizedTerminal == [][C23_FinalizedStep]_vars

\* Edit has just reopened a group that the saved file still holds as finalized
C23_Witness ==
    /\ ui_last.handler = "on_edit_group"
    /\ ui_last.group \in DOMAIN groups
    /\ ui_last.group \in DOMAIN selections_file
    /\ selections_file[ui_last.group].finalized
    /\ ~groups[ui_last.group].finalized
    /\ groups[ui_last.group].current_phase = "manufacturer"
    /\ widget.screen = "selection"
    /\ widget.phase = "manufacturer"

\* a group as create_group leaves it: first phase, not finalized, every list empty
IsFresh(g) ==
    /\ g.current_phase = "brand_name"
    /\ ~g.finalized
    /\ \A q \in 1..Len(PHASES) : \A b \in Buckets : g.decisions[PHASES[q]][b] = <<>>

\* create_group on the groups gs: refused or done as the claim says
CreateGroupAsStated(gs, name, keywords) ==
    LET made == CreateGroup(gs, name, keywords)
    IN  IF name \in DOMAIN gs \/ keywords = <<>>
        THEN made.raised = "ValueError" /\ made.groups = gs
        ELSE /\ made.raised = ""
             /\ DOMAIN made.groups = DOMAIN gs \cup {name}
             /\ IsFresh(made.groups[name])
             /\ made.groups[name].keywords = keywords
             /\ \A n \in DOMAIN gs : made.groups[n] = gs[n]

\* C24: create_group fails when the name is taken or the keywords are empty and leaves
\* the groups as they were; otherwise the new group is at brand_name, not finalized, with
\* empty accepted, deferred and rejected lists in all three phases.  "Proceed to
\* Selection" creates and saves the group or, when the manager refuses, changes nothing.
C24_CreateStep ==
    /\ \A name \in GroupNameTexts \ {""}, text \in KeywordTexts :
          CreateGroupAsStated(groups, name, ParseKeywords(text))
    /\ ui_last'.handler = "on_proceed_click" =>
          IF ui_last'.outcome = "saved"
          THEN /\ ui_last'.group \notin DOMAIN groups
               /\ DOMAIN groups' = DOMAIN groups \cup {ui_last'.group}
               /\ IsFresh(groups'[ui_last'.group])
               /\ groups'[ui_last'.group].keywords # <<>>
               /\ \A n \in DOMAIN groups : groups'[n] = groups[n]
               /\ selections_file' = groups'
          ELSE /\ groups' = groups
               /\ widget' = widget
               /\ selections_file' = selections_file

C24_CreateGroup == [][C24_CreateStep]_vars

\* "Proceed to Selection" with the name of a group that holds decisions was refused
C24_Witness ==
    /\ ui_last.handler = "on_proceed_click"
    /\ ui_last.outcome = "ValueError"
    /\ ui_last.group \in DOMAIN groups
    /\ ~IsFresh(groups[ui_last.group])
    /\ widget.screen = "add_group"

\* the values that listing a phase shows
Listed(d, g, phase) == {SearchCandidates(d, g, phase)[i].value : i \in DOMAIN SearchCandidates(d, g, phase)}

\* C25: a step of "Load Candidates" that lists values puts every listed value without a
\* recorded decision into 'deferred' of the phase and saves; a listed value with a decision
\* keeps it, nothing else of the groups changes, and listing again would list the same
\* values with a decision each and change nothing.
C25_ListingStep ==
    (ui_last'.handler = "load_content" /\ ui_last'.outcome = "saved") =>
        LET n == widget.group
            phase == widget.phase
            before == SearchCandidates(db, groups[n], phase)
            again == SearchCandidates(db, groups'[n], phase)
        IN  /\ \A i \in DOMAIN before :
                  RecordedDecision(groups'[n], phase, before[i].value) =
                      (IF before[i].decision = "" THEN "defer" ELSE before[i].decision)
            /\ \A b \in Buckets :
                  IsPrefix(groups[n].decisions[phase][b], groups'[n].decisions[phase][b])
            /\ groups' = [groups EXCEPT ![n].decisions[phase] = groups'[n].decisions[phase]]
            /\ selections_file' = groups'
            /\ Listed(db, groups'[n], phase) = Listed(db, groups[n], phase)
            /\ \A i \in DOMAIN again : again[i].decision # ""
            /\ DefaultDefer(groups'[n], phase, again) = groups'[n]

C25_ListingDefers == [][C25_ListingStep]_vars

\* the generic names were listed: x kept its 'accept', y was new and got deferred
C25_Witness ==
    /\ ui_last.handler = "load_content"
    /\ ui_last.outcome = "saved"
    /\ widget.phase = "generic_name"
    /\ widget.group \in DOMAIN groups
    /\ <<"x">> \in Bucket(Shown, "generic_name", "accepted")
    /\ <<"y">> \in Bucket(Shown, "generic_name", "deferred")
    /\ widget.decision_widgets = << "Accept", "Defer" >>

\* the values recorded in a phase of a group
Recorded(g, phase) == UNION {Bucket(g, phase, b) : b \in Buckets}

\* the items of _md_decisions that resolve the value v of phase q: accept or reject
Resolving(md_decisions, q, v) ==
    {i \in DOMAIN md_decisions :
        md_decisions[i].decision \in {"accept", "reject"} /\ md_decisions[i].key[q] = v}

Least(S) == CHOOSE i \in S : \A j \in S : i <= j

\* where the value v of phase q is after the resolution: a deferred value goes where the
\* first item that resolves it says, every other value stays
AfterResolution(g, md_decisions, q, v) ==
    IF v \in Bucket(g, PHASES[q], "deferred") /\ Resolving(md_decisions, q, v) # {}
    THEN md_decisions[Least(Resolving(md_decisions, q, v))].decision
    ELSE RecordedDecision(g, PHASES[q], v)

\* C26: "Save & View Summary" moves each component of a triple resolved as accept (reject)
\* that is in 'deferred' of its phase into 'accepted' ('rejected') of that phase; a
\* component that is not deferred stays where it is, a triple left at 'defer' changes
\* nothing, and no other value and no other field of the group changes.
C26_ResolutionStep ==
    ui_last'.handler = "save_and_continue" =>
        LET n == widget.group
        IN  /\ \A q \in 1..Len(PHASES) :
                  /\ Recorded(groups'[n], PHASES[q]) = Recorded(groups[n], PHASES[q])
                  /\ \A v \in Recorded(groups[n], PHASES[q]) :
                        RecordedDecision(groups'[n], PHASES[q], v) =
                            AfterResolution(groups[n], widget.md_decisions, q, v)
            /\ [groups'[n] EXCEPT !.decisions = groups[n].decisions] = groups[n]
            /\ \A i \in DOMAIN widget.md_decisions :
                  widget.md_decisions[i].decision = "defer" =>
                     ResolveTriple(groups[n], widget.md_decisions[i].key, "defer") = groups[n]
            /\ selections_file' = groups'

C26_ResolutionMovesDeferred == [][C26_ResolutionStep]_vars

\* a triple was accepted whose brand and generic name were deferred and whose
\* manufacturer was rejected: the two moved, the manufacturer stayed
C26_Witness ==
    /\ ui_last.handler = "save_and_continue"
    /\ \E n \in DOMAIN groups :
          /\ <<"a">> \in Bucket(groups[n], "brand_name", "accepted")
          /\ <<"x">> \in Bucket(groups[n], "generic_name", "accepted")
          /\ <<"m">> \in Bucket(groups[n], "manufacturer", "rejected")
          /\ <<"b">> \in Bucket(groups[n], "brand_name", "deferred")

AllAccepted(g, r) ==
    \A q \in 1..Len(PHASES) : r[FIELD_MAP[PHASES[q]]] \in Bucket(g, PHASES[q], "accepted")

SomeRejected(g, r) ==
    \E q \in 1..Len(PHASES) : r[FIELD_MAP[PHASES[q]]] \in Bucket(g, PHASES[q], "rejected")

SomeDeferred(g, r) ==
    \E q \in 1..Len(PHASES) : r[FIELD_MAP[PHASES[q]]] \in Bucket(g, PHASES[q], "deferred")

Rows(d) == {d.rows[i] : i \in 1..Len(d.rows)}

\* C27: "Finish & Save" leaves the group finalized with a snapshot whose identifier list
\* holds exactly the reports whose brand, generic name and manufacturer are each accepted
\* in their phase (none of them rejected); a report with a deferred component is not in
\* the list; pending_count counts the reports that only deferrals keep out.
C27_FinishStep ==
    ui_last'.handler = "_on_finish" =>
        LET n == ui_last'.group
            g == groups[n]
            h == groups'[n]
        IN  /\ h.finalized
            /\ h.current_phase = "finalized"
            /\ h.decisions = g.decisions
            /\ Range(h.snapshot.mdr_keys) =
                   {r.MDR_REPORT_KEY : r \in {r \in Rows(db) : AllAccepted(g, r) /\ ~SomeRejected(g, r)}}
            /\ Len(h.snapshot.mdr_keys) = Cardinality(Range(h.snapshot.mdr_keys))
            /\ h.snapshot.mdr_count = Len(h.snapshot.mdr_keys)
            /\ \A r \in Rows(db) : SomeDeferred(g, r) => r.MDR_REPORT_KEY \notin Range(h.snapshot.mdr_keys)
            /\ h.snapshot.pending_count =
                   Cardinality({r \in Rows(db) : SomeDeferred(g, r) /\ ~SomeRejected(g, r)})
            /\ selections_file' = groups'

----------------------------------------------------------------------------
(* get_results: the results of the finalized groups, against a store that  *)
(* may have changed since the finalization                                 *)

\* the store after an update of the corpus: report 1 is gone, report 4 is new and carries
\* the names that report 1 had
LaterStore ==
    [CascadeStore EXCEPT
        !.rows = << Report(StrKey("2"), 2, <<"b">>, <<"x">>, <<"m">>),
                    Report(StrKey("3"), 3, <<"b">>, <<"y">>, <<"m">>),
                    Report(StrKey("4"), 4, <<"a">>, <<"x">>, <<"m">>) >>]

KeysOf(rows) == [i \in 1..Len(rows) |-> rows[i].MDR_REPORT_KEY]

Modes == {"decisions", "snapshot"}

NoResults == [raised |-> "not called", mode |-> "", by_group |-> <<>>]

\* get_results(db, mode): fails if a group is not finalized; per group the captured list
\* ('snapshot') or the live match on the store as it is now ('decisions')
GetResults(d, gs, mode) ==
    IF \E n \in DOMAIN gs : ~gs[n].finalized
    THEN [raised |-> "ValueError", mode |-> mode, by_group |-> <<>>]
    ELSE [raised |-> "", mode |-> mode,
          by_group |-> [n \in DOMAIN gs |->
                           IF mode = "snapshot" THEN gs[n].snapshot.mdr_keys
                           ELSE KeysOf(LiveMatch(d, gs[n]))]]

\* a variant that asks the manager for the live match whatever the mode
get_results_live ==
    /\ \E mode \in Modes :
          /\ result' = [GetResults(db, groups, "decisions") EXCEPT !.mode = mode]
          /\ ui_last' = Event("get_results", "", "", mode, result'.raised)
    /\ UNCHANGED <<strategy, db, now, last, recent, records, yaml_file, loaded, logvars, helpervars>>
    /\ UNCHANGED <<groups, widget, selections_file>>

\* SelectionWidget.get_results(mode), called from another cell of the notebook
get_results ==
    /\ \E mode \in Modes :
          /\ result' = GetResults(db, groups, mode)
          /\ ui_last' = Event("get_results", "", "", mode, result'.raised)
    /\ UNCHANGED <<strategy, db, now, last, recent, records, yaml_file, loaded, logvars, helpervars>>
    /\ UNCHANGED <<groups, widget, selections_file>>

\* the corpus is updated behind the widget
store_update ==
    /\ db = CascadeStore
    /\ db' = LaterStore
    /\ UNCHANGED <<strategy, result, now, last, recent, records, yaml_file, loaded, logvars, helpervars>>
    /\ UNCHANGED cascadevars

InitResults ==
    /\ strategy = DeviceSearchStrategy("s", "d", <<>>, <<>>, <<>>, <<>>, <<>>, "", 0)
    /\ db = CascadeStore
    /\ result = NoResults
    /\ Idle

\* the events that lead a group to its finalization and back, and the two above
NextResults ==
    \/ on_add_click
    \/ on_proceed_click
    \/ load_content
    \/ on_change
    \/ on_next_click
    \/ md_load_content
    \/ view_summary
    \/ save_and_continue
    \/ on_finish
    \/ on_edit_group
    \/ get_results
    \/ store_update

SpecResults == InitResults /\ [][NextResults]_vars

\* C28: with every group finalized, get_results('snapshot') returns for each group the
\* identifier list captured at its finalization, whatever the store holds now, and
\* get_results('decisions') returns the match of the decisions on the store as it is now;
\* with a group that is not finalized, get_results fails with a state error.
C28_ResultsStep ==
    ui_last'.handler = "get_results" =>
        IF \E n \in DOMAIN groups : ~groups[n].finalized
        THEN result'.raised = "ValueError"
        ELSE /\ result'.raised = ""
             /\ \A n \in DOMAIN groups :
                   IF result'.mode = "snapshot"
                   THEN /\ result'.by_group[n] = groups[n].snapshot.mdr_keys
                        /\ GetResults(CascadeStore, groups, "snapshot").by_group[n] =
                              GetResults(LaterStore, groups, "snapshot").by_group[n]
                   ELSE Range(result'.by_group[n]) =
                           {r.MDR_REPORT_KEY : r \in {r \in Rows(db) : AllAccepted(groups[n], r)}}

C28_GetResults == [][C28_ResultsStep]_vars

\* the snapshot was replayed after the store lost the captured report and gained another
\* that the decisions match
C28_Witness ==
    /\ ui_last.handler = "get_results"
    /\ result.raised = ""
    /\ result.mode = "snapshot"
    /\ db = LaterStore
    /\ \E n \in DOMAIN groups :
          /\ result.by_group[n] = << StrKey("1") >>
          /\ KeysOf(LiveMatch(db, groups[n])) = << StrKey("4") >>

(***************************************************************************)
(* Deduplication helpers, section 4.4: count_unique_outcomes_per_report.   *)
(* pymaude/analysis_helpers.py is written from the specification and from  *)
(* what src/tests/test_patient_parsing.py expects of it.  A patient table  *)
(* is its set of columns and its rows in order; an outcome value is a text *)
(* or None.                                                                *)
(***************************************************************************)

\* str.split(';'): the pieces between the semicolons
RECURSIVE SplitSemicolons(_, _)
SplitSemicolons(text, piece) ==
    IF text = <<>> THEN << piece >>
    ELSE IF Head(text) = ";" THEN << piece >> \o SplitSemicolons(Tail(text), <<>>)
    ELSE SplitSemicolons(Tail(text), Append(piece, Head(text)))

\* a variant that keeps the empty tokens
OutcomeCodesKeepsEmpty(value) ==
    IF value = NoneText THEN <<>>
    ELSE LET pieces == SplitSemicolons(value, <<>>)
         IN  [i \in 1..Len(pieces) |-> Strip(pieces[i])]

\* a variant that does not strip the tokens
OutcomeCodesUnstripped(value) ==
    IF value = NoneText THEN <<>>
    ELSE SelectSeq(SplitSemicolons(value, <<>>), LAMBDA code : Strip(code) # <<>>)

\* the codes of one patient row: [c.strip() for c in x.split(';') if c.strip()],
\* and nothing for a missing value
OutcomeCodes(value) ==
    IF value = NoneText THEN <<>>
    ELSE LET pieces == SplitSemicolons(value, <<>>)
             stripped == [i \in 1..Len(pieces) |-> Strip(pieces[i])]
         IN  SelectSeq(stripped, LAMBDA code : code # <<>>)

\* the rows of a table folded into one entry per report, in the order of the rows
RECURSIVE GroupByReport(_, _)
GroupByReport(rows, seen) ==
    IF rows = <<>> THEN seen
    ELSE LET row == Head(rows)
             key == row.MDR_REPORT_KEY
             codes == Range(OutcomeCodes(row.SEQUENCE_NUMBER_OUTCOME))
             old == IF key \in DOMAIN seen THEN seen[key]
                    ELSE [patient_count |-> 0, unique_outcomes |-> {}]
             new == [patient_count |-> old.patient_count + 1,
                     unique_outcomes |-> old.unique_outcomes \cup codes]
         IN  GroupByReport(Tail(rows),
                 [k \in DOMAIN seen \cup {key} |-> IF k = key THEN new ELSE seen[k]])

\* the result of the helper: ValueError without the outcome column, no row for an
\* empty table, else per report its patients, its codes and one count per code
CountUniqueOutcomesPerReport(table) ==
    IF table.rows = <<>> THEN [raised |-> "", rows |-> <<>>]
    ELSE IF "SEQUENCE_NUMBER_OUTCOME" \notin table.columns
    THEN [raised |-> "ValueError", rows |-> <<>>]
    ELSE LET grouped == GroupByReport(table.rows, <<>>)
         IN  [raised |-> "",
              rows |-> [k \in DOMAIN grouped |->
                          [patient_count |-> grouped[k].patient_count,
                           unique_outcomes |-> grouped[k].unique_outcomes,
                           outcome_counts |-> [c \in grouped[k].unique_outcomes |-> 1]]]]

\* ---- inputs ----

MaxPatients == 2

PatientColumns == {"MDR_REPORT_KEY", "PATIENT_SEQUENCE_NUMBER", "SEQUENCE_NUMBER_OUTCOME"}

\* outcome values: one code, the code between blanks, two codes with and without
\* blanks around the semicolon, the empty text, None
OutcomeValues ==
    { <<"D">>, <<" ", "D", " ">>, <<"D", ";", "H">>, <<"D", " ", ";", " ", "H">>,
      <<>>, NoneText }

PatientRow(key, value) == [MDR_REPORT_KEY |-> key, SEQUENCE_NUMBER_OUTCOME |-> value]

PatientRows == {PatientRow(key, value) : key \in {"1", "2"}, value \in OutcomeValues}

RowsUpTo(n) == UNION {[1..m -> PatientRows] : m \in 0..n}

Table(rows) == [columns |-> PatientColumns, rows |-> rows]

\* the tables of test_patient_parsing.py: setUp, test_null_outcomes,
\* test_whitespace_handling and the same report without the blanks
SetUpTable ==
    Table(<< PatientRow("1111111", <<"D">>),
             PatientRow("1111111", <<"D", ";", "H">>),
             PatientRow("1111111", <<"D", ";", "H", ";", "L">>),
             PatientRow("2222222", <<"H">>),
             PatientRow("3333333", <<"S">>),
             PatientRow("3333333", <<"S", ";", "R">>) >>)

NullTable ==
    Table(<< PatientRow("5555555", <<"D">>),
             PatientRow("5555555", <<>>),
             PatientRow("6666666", NoneText) >>)

WhitespaceTable ==
    Table(<< PatientRow("7777777", <<"D", " ", ";", " ", "H", " ", ";", " ", "L">>) >>)

PlainTable ==
    Table(<< PatientRow("7777777", <<"D", ";", "H", ";", "L">>) >>)

\* pd.DataFrame(), bounded tables, the tables of the tests, and setUp without the
\* outcome column
PatientTables ==
    {NoTable} \cup {Table(rows) : rows \in RowsUpTo(MaxPatients)}
        \cup {SetUpTable, NullTable, WhitespaceTable, PlainTable}
        \cup {[SetUpTable EXCEPT !.columns = PatientColumns \ {"SEQUENCE_NUMBER_OUTCOME"}]}

\* ---- the call ----

count_unique_outcomes_per_report ==
    /\ summary = NoSummary
    /\ summary' = CountUniqueOutcomesPerReport(patients)
    /\ UNCHANGED <<strategy, db, result, now, last, recent, records, yaml_file, loaded>>
    /\ UNCHANGED <<logvars, cascadevars, patients, counts, writing>>

InitOutcomes ==
    /\ strategy = DeviceSearchStrategy("s", "d", <<>>, <<>>, <<>>, <<>>, <<>>, "", 0)
    /\ db = CascadeStore
    /\ result = NoResults
    /\ now = 0
    /\ last = NoCall
    /\ recent = <<>>
    /\ records = <<>>
    /\ yaml_file = NoFile
    /\ loaded = NoStrategy
    /\ IdleLog
    /\ IdleManager
    /\ patients \in PatientTables
    /\ summary = NoSummary
    /\ counts = NoCounts
    /\ writing = NotWriting

NextOutcomes == count_unique_outcomes_per_report

SpecOutcomes == InitOutcomes /\ [][NextOutcomes]_vars

\* ---- C29 ----

Blank(text) == \A i \in 1..Len(text) : text[i] = " "

\* the positions that bound a piece of text: before it, after it, and each semicolon
Bounds(text) == {0, Len(text) + 1} \cup {i \in 1..Len(text) : text[i] = ";"}

\* the pieces between two neighbouring bounds
Pieces(text) ==
    {SubSeq(text, i + 1, j - 1) : <<i, j>> \in
        {p \in Bounds(text) \X Bounds(text) :
            /\ p[1] < p[2]
            /\ \A k \in Bounds(text) : ~(p[1] < k /\ k < p[2])}}

\* what is left of a piece without the blanks around it, if anything is left
Trimmed(piece) ==
    {SubSeq(piece, a, b) : <<a, b>> \in
        {p \in (1..Len(piece)) \X (1..Len(piece)) :
            /\ p[1] <= p[2]
            /\ piece[p[1]] # " "
            /\ piece[p[2]] # " "
            /\ Blank(SubSeq(piece, 1, p[1] - 1))
            /\ Blank(SubSeq(piece, p[2] + 1, Len(piece)))}}

\* the trimmed, non-empty codes of one outcome value; a missing value has none
StatedCodes(value) ==
    IF value = NoneText THEN {} ELSE UNION {Trimmed(piece) : piece \in Pieces(value)}

ReportKeys(table) == {table.rows[i].MDR_REPORT_KEY : i \in 1..Len(table.rows)}

\* the union of the codes of the patient rows of one report
StatedOutcomes(table, key) ==
    UNION {StatedCodes(table.rows[i].SEQUENCE_NUMBER_OUTCOME) :
              i \in {i \in 1..Len(table.rows) : table.rows[i].MDR_REPORT_KEY = key}}

Counted == summary # NoSummary /\ summary.raised = ""

\* C29: count_unique_outcomes_per_report returns, for every report of the table, the
\* union over its patient rows of the trimmed, non-empty codes between the semicolons,
\* and counts each code once for the report however many rows repeat it; an empty or
\* missing outcome value contributes nothing.
C29_UniqueOutcomes ==
    Counted =>
        /\ DOMAIN summary.rows = ReportKeys(patients)
        /\ \A key \in ReportKeys(patients) :
              /\ summary.rows[key].unique_outcomes = StatedOutcomes(patients, key)
              /\ DOMAIN summary.rows[key].outcome_counts = StatedOutcomes(patients, key)
              /\ \A code \in StatedOutcomes(patients, key) :
                    summary.rows[key].outcome_counts[code] = 1

\* patients 'D', 'D;H', 'D;H;L' of report 1111111 gave {D, H, L} with D counted once
C29_Witness ==
    /\ Counted
    /\ patients = SetUpTable
    /\ summary.rows["1111111"].unique_outcomes = {<<"D">>, <<"H">>, <<"L">>}
    /\ summary.rows["1111111"].outcome_counts[<<"D">>] = 1
    /\ summary.rows["3333333"].unique_outcomes = {<<"S">>, <<"R">>}

\* ---- C30 ----

\* an outcome value without its blanks (no code of the inputs holds a blank)
WithoutBlanks(value) == SelectSeq(value, LAMBDA ch : ch # " ")

\* the rows of a table with the blanks of their outcome values taken out
PlainRows(table) ==
    [i \in 1..Len(table.rows) |->
        PatientRow(table.rows[i].MDR_REPORT_KEY,
                   WithoutBlanks(table.rows[i].SEQUENCE_NUMBER_OUTCOME))]

Occurrences(rows, row) == Cardinality({i \in 1..Len(rows) : rows[i] = row})

\* two tables that differ at most in the order of their rows and in blanks
SameUpToOrderAndBlanks(t1, t2) ==
    /\ t1.columns = t2.columns
    /\ Len(t1.rows) = Len(t2.rows)
    /\ LET rows1 == PlainRows(t1)
           rows2 == PlainRows(t2)
       IN  \A row \in Range(rows1) \cup Range(rows2) :
               Occurrences(rows1, row) = Occurrences(rows2, row)

\* C30: count_unique_outcomes_per_report gives the same unique outcome set for every
\* report on any two tables that differ only in the order of the patient rows and in
\* the blanks around the codes.
C30_OrderAndBlanksInvariant ==
    Counted =>
        \A other \in PatientTables :
            SameUpToOrderAndBlanks(patients, other) =>
                LET again == CountUniqueOutcomesPerReport(other)
                IN  /\ again.raised = ""
                    /\ DOMAIN again.rows = DOMAIN summary.rows
                    /\ \A key \in DOMAIN summary.rows :
                          again.rows[key].unique_outcomes = summary.rows[key].unique_outcomes

\* 'D ; H' then ' D ' of one report was counted; 'D' then 'D;H' is the same table in
\* another order and without the blanks
C30_Witness ==
    /\ Counted
    /\ patients = Table(<< PatientRow("1", <<"D", " ", ";", " ", "H">>),
                           PatientRow("1", <<" ", "D", " ">>) >>)
    /\ summary.rows["1"].unique_outcomes = {<<"D">>, <<"H">>}
    /\ \E other \in PatientTables :
          /\ other.rows = << PatientRow("1", <<"D">>), PatientRow("1", <<"D", ";", "H">>) >>
          /\ SameUpToOrderAndBlanks(patients, other)

\* ---- C31 ----

\* C31: whenever an event handler of the widget that changed the groups of the manager
\* returns, save has run after the change: the saved file equals the groups in memory.
C31_AutoSaveStep == groups' # groups => selections_file' = groups'

C31_AutoSave == [][C31_AutoSaveStep]_vars

\* every handler but the Edit button of a finalized group saves what it changed
C31_AutoSaveButEdit ==
    [][ui_last'.handler # "on_edit_group" => C31_AutoSaveStep]_vars

\* ---- C32 ----

\* a text with a character that is neither a comma nor a blank holds a keyword
HoldsKeyword(text) == \E i \in 1..Len(text) : text[i] \notin {",", " "}

\* the keywords of a text, stated by position: the runs between commas, without the
\* blanks around them
KeywordsStated(text) ==
    {kw \in UNION {{SubSeq(text, i, j) : j \in i..Len(text)} : i \in 1..Len(text)} :
        /\ \A k \in 1..Len(kw) : kw[k] # ","
        /\ kw[1] # " " /\ kw[Len(kw)] # " "}

\* C32: Home on the add-group screen always saves and ends on the main screen; it first
\* creates the group when a name and at least one non-blank keyword were entered, and a
\* failure of create_group (a name that is taken) leaves the groups as they were.
C32_HomeStep ==
    /\ \A text \in KeywordTexts, name \in GroupNameTexts :
          LET after == CreateIfValid(groups, text, name)
          IN  IF name # "" /\ HoldsKeyword(text) /\ name \notin DOMAIN groups
              THEN /\ DOMAIN after = DOMAIN groups \cup {name}
                   /\ IsFresh(after[name])
                   /\ Range(after[name].keywords) \subseteq KeywordsStated(text)
                   /\ after[name].keywords # <<>>
                   /\ \A n \in DOMAIN groups : after[n] = groups[n]
              ELSE after = groups
    /\ ui_last'.handler = "on_home_from_add_group" =>
          /\ \E text \in KeywordTexts : groups' = CreateIfValid(groups, text, ui_last'.group)
          /\ selections_file' = groups'
          /\ widget'.screen = "main"

C32_HomeSavesAndCreates == [][C32_HomeStep]_vars

\* Home was clicked with the name of a group that holds decisions: nothing changed but
\* the screen, and the file holds the groups
C32_Witness ==
    /\ ui_last.handler = "on_home_from_add_group"
    /\ ui_last.outcome = "swallowed"
    /\ ui_last.group \in DOMAIN groups
    /\ groups[ui_last.group].decisions["brand_name"].accepted # <<>>
    /\ selections_file = groups
    /\ widget.screen = "main"

(***************************************************************************)
(* DeviceSearchStrategy.get_prisma_counts on the three outputs of apply    *)
(***************************************************************************)

Max(a, b) == IF a > b THEN a ELSE b

\* counts = strategy.get_prisma_counts(included_df, excluded_df, needs_review_df)
GetPrismaCounts(s, included_df, excluded_df, needs_review_df) ==
    LET broad_matches == Len(included_df) + Len(excluded_df) + Len(needs_review_df)
        narrow_matches == Len(included_df)
        manual_inclusions == Len(s.inclusion_overrides)
        manual_exclusions == Len(s.exclusion_overrides)
        excluded_by_patterns == Len(excluded_df) - manual_exclusions
    IN  [called |-> TRUE,
         broad_matches |-> broad_matches,
         narrow_matches |-> narrow_matches - manual_exclusions,
         needs_manual_review |-> Len(needs_review_df),
         manual_inclusions |-> manual_inclusions,
         manual_exclusions |-> manual_exclusions,
         final_included |-> Len(included_df),
         final_excluded |-> Len(excluded_df),
         excluded_by_patterns |-> Max(0, excluded_by_patterns)]

\* the caller hands over what apply returned
get_prisma_counts ==
    /\ result.raised = ""
    /\ counts = NoCounts
    /\ counts' = GetPrismaCounts(strategy, result.included, result.excluded, result.needs_review)
    /\ UNCHANGED <<strategy, db, result, now, last, recent, records, yaml_file, loaded>>
    /\ UNCHANGED <<logvars, cascadevars, patients, summary, writing>>

\* apply, once, before the counts are taken
apply_once ==
    /\ result = NoResult
    /\ apply

NextPrisma == apply_once \/ get_prisma_counts

SpecPrisma == Init /\ [][NextPrisma]_vars

\* C33: given the three outputs of apply for the same strategy, broad_matches is the
\* number of reports the broad search matched and narrow_matches the number of reports
\* the narrow search matched, whatever the exclusion patterns and overrides.
C33_PrismaCounts ==
    counts.called =>
        /\ counts.broad_matches = Len(search_by_device_names(db, strategy.broad_criteria))
        /\ counts.narrow_matches = Len(search_by_device_names(db, strategy.narrow_criteria))

\* ---- C34 ----

\* the overrides that name a report of the broad or the narrow search
NamesResult(k) == PyStr(k) \in BroadKeys \cup NarrowKeys

WithoutStrayOverrides ==
    [strategy EXCEPT
        !.inclusion_overrides = SelectSeq(@, NamesResult),
        !.exclusion_overrides = SelectSeq(@, NamesResult)]

AllOutputs == result.included \o result.excluded \o result.needs_review

\* C34: the outputs of apply cover exactly the search results: every identifier the
\* broad or the narrow search returned is in exactly one output, no other identifier is
\* in any output, and overrides that name other identifiers change nothing and raise
\* nothing.
C34_OutputsCoverSearches ==
    (result # NoResult /\ db.is_maude_database
        /\ strategy.broad_criteria # <<>> /\ strategy.narrow_criteria # <<>>) =>
        /\ Returned
        /\ \A k \in BroadKeys \cup NarrowKeys : Count(AllOutputs, k) = 1
        /\ Keys(AllOutputs) \subseteq BroadKeys \cup NarrowKeys
        /\ result = Apply(WithoutStrayOverrides, db, "DEVICE_NAME_CONCAT")

\* apply returned all three outputs under overrides of which one names no search result
C34_Witness ==
    /\ Returned
    /\ result.included # <<>> /\ result.excluded # <<>> /\ result.needs_review # <<>>
    /\ \E k \in InclusionKeys \cup ExclusionKeys : k \notin BroadKeys \cup NarrowKeys
    /\ WithoutStrayOverrides # strategy

\* ---- C35 ----

\* the rows of the narrow search
NarrowRows == Range(search_by_device_names(db, strategy.narrow_criteria))

\* C35: the exclusion patterns are applied before the inclusion overrides and only to
\* the reports outside the narrow search: a broad-only report whose name matches a
\* pattern ends in excluded even when inclusion_overrides lists it, and a report of the
\* narrow search stays in included even when its name matches a pattern, unless
\* exclusion_overrides lists it.
C35_PatternsBeforeOverrides ==
    Returned =>
        /\ \A r \in BroadOnlyRows :
              MatchingPatterns(r) # {} =>
                  /\ Count(result.excluded, PyStr(r.MDR_REPORT_KEY)) = 1
                  /\ PyStr(r.MDR_REPORT_KEY) \notin Keys(result.included)
                  /\ PyStr(r.MDR_REPORT_KEY) \notin Keys(result.needs_review)
        /\ \A r \in NarrowRows :
              IF PyStr(r.MDR_REPORT_KEY) \in ExclusionKeys
              THEN /\ PyStr(r.MDR_REPORT_KEY) \in Keys(result.excluded)
                   /\ PyStr(r.MDR_REPORT_KEY) \notin Keys(result.included)
              ELSE /\ Count(result.included, PyStr(r.MDR_REPORT_KEY)) = 1
                   /\ PyStr(r.MDR_REPORT_KEY) \notin Keys(result.excluded)

\* a broad-only report that matches a pattern and is listed in inclusion_overrides only
\* was excluded, and a narrow report that matches a pattern was included
C35_Witness ==
    /\ Returned
    /\ \E r \in BroadOnlyRows :
          /\ MatchingPatterns(r) # {}
          /\ PyStr(r.MDR_REPORT_KEY) \in InclusionKeys \ ExclusionKeys
          /\ PyStr(r.MDR_REPORT_KEY) \in Keys(result.excluded)
    /\ \E r \in NarrowRows :
          /\ MatchingPatterns(r) # {}
          /\ PyStr(r.MDR_REPORT_KEY) \in Keys(result.included)

\* ---- C36 ----

\* the keys that hold both an include and an exclude record
Conflicts(recs) == GetInclusionKeys(recs) \cap GetExclusionKeys(recs)

\* C36: include_remaining and exclude_remaining never create a conflict: a key holds
\* both an include and an exclude record after the call only if it did before, for
\* every candidate table, tables that repeat a key included; of the operations on an
\* object only add gives a key both decisions.
C36_BulkStep ==
    /\ log_last'.op \in BulkOperations =>
          \A i \in DOMAIN logs : Conflicts(logs'[i].records) = Conflicts(logs[i].records)
    /\ \A i \in DOMAIN logs :
          (log_last'.op \in LogOperations
              /\ ~(Conflicts(logs'[i].records) \subseteq Conflicts(logs[i].records)))
          => log_last'.op = "add"

OpenForAppending(file) == [file EXCEPT !.exists = TRUE]

\* open(self.path, 'w', ...): the file exists and is empty
OpenForWriting(file) == [exists |-> TRUE, header |-> <<>>, rows |-> <<>>]

\* the file once the first n writerow calls of to_csv have reached it (n > 0)
FileAfter(recs, n) ==
    [exists |-> TRUE, header |-> CsvColumns,
     rows |-> [k \in 1..(n - 1) |-> WriteRow(recs[k])]]

\* to_csv, the with statement is entered
to_csv_open ==
    /\ writing = NotWriting
    /\ \E i \in DOMAIN logs :
          /\ IsOpen(i)
          /\ csv_file' = OpenForWriting(csv_file)
          /\ writing' = [inst |-> i, handed |-> 0, flushed |-> 0]
          /\ log_last' = Called("to_csv_open", i, "")
    /\ UNCHANGED <<logs, saved, now>>
    /\ UNCHANGED <<strategy, db, result, last, recent, records, yaml_file, loaded>>
    /\ UNCHANGED <<cascadevars, patients, summary, counts>>

\* to_csv, one writerow: the header first, then the records in order; the buffer
\* passes on none, some or all of what it holds
to_csv_write ==
    /\ writing # NotWriting
    /\ writing.handed < 1 + Len(logs[writing.inst].records)
    /\ \E n \in writing.flushed..(writing.handed + 1) :
          /\ writing' = [writing EXCEPT !.handed = @ + 1, !.flushed = n]
          /\ csv_file' = IF n = writing.flushed THEN csv_file
                         ELSE FileAfter(logs[writing.inst].records, n)
    /\ log_last' = Called("to_csv_write", writing.inst, "")
    /\ UNCHANGED <<logs, saved, now>>
    /\ UNCHANGED <<strategy, db, result, last, recent, records, yaml_file, loaded>>
    /\ UNCHANGED <<cascadevars, patients, summary, counts>>

\* to_csv, the with statement is left: the file is flushed and closed
to_csv_close ==
    /\ writing # NotWriting
    /\ writing.handed = 1 + Len(logs[writing.inst].records)
    /\ csv_file' = FileAfter(logs[writing.inst].records, writing.handed)
    /\ saved' = [by |-> writing.inst, records |-> logs[writing.inst].records,
                 unsaved |-> 0, savers |-> saved.savers \cup {writing.inst}]
    /\ log_last' = Called("to_csv", writing.inst, "")
    /\ writing' = NotWriting
    /\ UNCHANGED <<logs, now>>
    /\ UNCHANGED <<strategy, db, result, last, recent, records, yaml_file, loaded>>
    /\ UNCHANGED <<cascadevars, patients, summary, counts>>

\* the process is interrupted inside to_csv: its objects and its buffer are gone, the
\* file stays as it is
crash ==
    /\ writing # NotWriting
    /\ logs' = [i \in DOMAIN logs |-> NoLog]
    /\ log_last' = Called("crash", writing.inst, "")
    /\ writing' = NotWriting
    /\ UNCHANGED <<csv_file, saved, now>>
    /\ UNCHANGED <<strategy, db, result, last, recent, records, yaml_file, loaded>>
    /\ UNCHANGED <<cascadevars, patients, summary, counts>>

\* the calls that run while no to_csv is under way
open_log_between ==
    /\ writing = NotWriting
    /\ open_log

log_add_between ==
    /\ writing = NotWriting
    /\ log_add

NextCrash ==
    \/ open_log_between
    \/ log_add_between
    \/ to_csv_open
    \/ to_csv_write
    \/ to_csv_close
    \/ crash

\* a file that an earlier to_csv wrote
SavedFile ==
    [exists |-> TRUE, header |-> CsvColumns,
     rows |-> << << "1", "include", Ok, "Jake", IsoFormat(0), "v1.0", "Cleaner", "" >> >>]

\* one object; no file yet, or the file of an earlier save
InitCrash ==
    /\ strategy = DeviceSearchStrategy("s", "d", <<>>, <<>>, <<>>, <<>>, <<>>, "", 0)
    /\ db = NotADatabase
    /\ result = NoResult
    /\ now = 0
    /\ last = NoCall
    /\ recent = <<>>
    /\ records = <<>>
    /\ yaml_file = NoFile
    /\ loaded = NoStrategy
    /\ logs = [i \in {"a"} |-> NoLog]
    /\ csv_file \in {NoCsvFile, SavedFile}
    /\ log_last = NoLogCall
    /\ saved = NeverSaved
    /\ IdleCascade

SpecCrash == InitCrash /\ [][NextCrash]_vars

\* ---- C37 ----

\* the rows to_csv writes for the records of an object
RowsOf(recs) == [k \in 1..Len(recs) |-> WriteRow(recs[k])]

\* C37: to_csv is not atomic: it empties the backing file first and then writes the
\* header and the records one by one, so at an interruption inside the call the file
\* holds a prefix of the rows of the records, possibly a strict one, and what an
\* earlier save had put in the file is gone.
C37_WriteStep ==
    /\ log_last'.op = "to_csv_open" =>
          csv_file' = [exists |-> TRUE, header |-> <<>>, rows |-> <<>>]
    /\ log_last'.op \in {"to_csv_write", "crash"} =>
          /\ csv_file'.exists
          /\ csv_file'.header \in {<<>>, CsvColumns}
          /\ csv_file'.header = <<>> => csv_file'.rows = <<>>
          /\ IsPrefix(csv_file'.rows, RowsOf(logs[log_last'.inst].records))
          /\ IsPrefix(csv_file.rows, csv_file'.rows)
    /\ log_last'.op = "to_csv" =>
          /\ csv_file'.header = CsvColumns
          /\ csv_file'.rows = RowsOf(logs[log_last'.inst].records)

C37_ToCsvNotAtomic == [][C37_WriteStep]_vars

\* an object of two records, the first of them saved before, was interrupted in to_csv:
\* the file holds fewer rows than the object held records and fewer than the earlier
\* save had written
C37_Witness ==
    /\ log_last.op = "crash"
    /\ log_last.n_before = 2
    /\ Len(csv_file.rows) < log_last.n_before
    /\ saved.records # <<>>
    /\ Len(csv_file.rows) < Len(saved.records)

\* ---- C38 ----

\* C38: whenever the widget shows the selection screen of a group, the phase of the
\* widget is one of the three review phases and is the current phase of that group in
\* the manager, so a decision is recorded under the phase the manager is in.
C38_WidgetPhaseIsManagerPhase ==
    OnScreen("selection") =>
        /\ widget.group \in DOMAIN groups
        /\ widget.phase \in Range(PHASES)
        /\ widget.phase = groups[widget.group].current_phase

\* the two differ only for a group the manager holds at 'finalized' while the widget
\* shows the last review phase
C38_MismatchOnlyAtLastPhase ==
    OnScreen("selection") =>
        /\ widget.group \in DOMAIN groups
        /\ widget.phase \in Range(PHASES)
        /\ \/ widget.phase = groups[widget.group].current_phase
           \/ /\ groups[widget.group].current_phase = "finalized"
              /\ ~groups[widget.group].finalized
              /\ widget.phase = PHASES[Len(PHASES)]

\* ---- C39 ----

\* the items of _md_decisions in another order
Reorderings(md_decisions) ==
    {[i \in DOMAIN md_decisions |-> md_decisions[p[i]]] :
        p \in Permutations(DOMAIN md_decisions)}

\* C39: the resolution of the multi-deferred triples depends on the order in which they are
\* processed: a deferred value shared by a triple resolved as accept and a triple resolved
\* as reject ends in the bucket of the triple processed first, the later triple does not
\* move it, and another order of the same triples gives it the other bucket; every value
\* on which the resolved triples do not disagree ends the same in any order.
C39_OrderStep ==
    ui_last'.handler = "save_and_continue" =>
        LET n == widget.group
            g == groups[n]
            md == widget.md_decisions
        IN  \A q \in 1..Len(PHASES) : \A v \in Recorded(g, PHASES[q]) :
                LET after(o) == RecordedDecision(SaveAndContinue(g, o), PHASES[q], v)
                IN  /\ RecordedDecision(groups'[n], PHASES[q], v) = after(md)
                    /\ IF <<q, v>> \in SharedDeferred(g, md)
                       THEN /\ \A o \in Reorderings(md) :
                                  after(o) = o[Least(Resolving(o, q, v))].decision
                            /\ \E o \in Reorderings(md) : after(o) # after(md)
                       ELSE \A o \in Reorderings(md) : after(o) = after(md)

C39_ResolutionOrder == [][C39_OrderStep]_vars

\* the brand b was deferred, the triple processed first rejected it and a later triple
\* with the same brand was accepted: b is rejected, and so is the manufacturer they share
C39_Witness ==
    /\ ui_last.handler = "save_and_continue"
    /\ ui_last.phase = "brand_name"
    /\ ui_last.decision = "reject"
    /\ \E n \in DOMAIN groups :
          /\ <<"b">> \in Bucket(groups[n], "brand_name", "rejected")
          /\ <<"m">> \in Bucket(groups[n], "manufacturer", "rejected")

============================================================================
